---- MODULE Spec2Model ----
(***************************************************************************)
(* Order resolution and wallet reconciliation of the Polymarket trading    *)
(* tool: the Flask handlers of app.py (set_creds, place_order,             *)
(* repeat_order) with the services they call (WalletService.detect_proxy,  *)
(* MarketService, TradeService, the RateLimiter gate).                     *)
(*                                                                         *)
(* Text is a sequence of one-character strings, so that strip(), lower(),  *)
(* startswith() and isdigit() are computed and not assumed.  A JSON value  *)
(* is a tagged record.  Money, share and price figures are integers (a     *)
(* count of hundredths).  Every outbound call is logged, with the answer   *)
(* the outside world gave, in the request's trace.                         *)
(***************************************************************************)
EXTENDS Integers, Sequences, FiniteSets, TLC

VARIABLES settings, session, calls, now, req, pc, res, net, built, posted,
          lock, admitted, trades, tracked_traders

vars == <<settings, session, calls, now, req, pc, res, net, built, posted,
          lock, admitted, trades, tracked_traders>>

-----------------------------------------------------------------------------
(* Text *)

UpperChars == <<"A","B","C","D","E","F","G","H","I","J","K","L","M",
                "N","O","P","Q","R","S","T","U","V","W","X","Y","Z">>
LowerChars == <<"a","b","c","d","e","f","g","h","i","j","k","l","m",
                "n","o","p","q","r","s","t","u","v","w","x","y","z">>
Digits == {"0","1","2","3","4","5","6","7","8","9"}
HexChars == Digits \cup {"a","b","c","d","e","f","A","B","C","D","E","F"}

LowerMap == [c \in {UpperChars[i] : i \in 1..26} |->
               LowerChars[CHOOSE i \in 1..26 : UpperChars[i] = c]]
UpperMap == [c \in {LowerChars[i] : i \in 1..26} |->
               UpperChars[CHOOSE i \in 1..26 : LowerChars[i] = c]]

LowerC(c) == IF c \in DOMAIN LowerMap THEN LowerMap[c] ELSE c
UpperC(c) == IF c \in DOMAIN UpperMap THEN UpperMap[c] ELSE c

Lower(s) == [i \in 1..Len(s) |-> LowerC(s[i])]
Upper(s) == [i \in 1..Len(s) |-> UpperC(s[i])]

SetMin(S) == CHOOSE x \in S : \A y \in S : x <= y
SetMax(S) == CHOOSE x \in S : \A y \in S : y <= x

Strip(s) ==
  LET keep == {i \in 1..Len(s) : s[i] # " "}
  IN  IF keep = {} THEN <<>> ELSE SubSeq(s, SetMin(keep), SetMax(keep))

StartsWith(s, p) == Len(s) >= Len(p) /\ SubSeq(s, 1, Len(p)) = p

IsDigit(s) == Len(s) > 0 /\ \A i \in 1..Len(s) : s[i] \in Digits

Rep(c, n) == [i \in 1..n |-> c]

\* re.sub(r'[^0-9a-fA-F]', '', pk)
OnlyHex(s) == SelectSeq(s, LAMBDA c : c \in HexChars)

-----------------------------------------------------------------------------
(* JSON values *)

Null == [t |-> "null"]
Num(n) == [t |-> "num", v |-> n]
Str(s) == [t |-> "str", v |-> s]
List(l) == [t |-> "list", v |-> l]

\* Python's `not x`
Falsy(x) ==
  \/ x.t = "null"
  \/ x.t = "num" /\ x.v = 0
  \/ x.t = "str" /\ x.v = <<>>
  \/ x.t = "list" /\ x.v = <<>>

\* (x or "") of a text field
OrEmpty(x) == IF Falsy(x) THEN <<>> ELSE x.v

DigitVal(c) == CHOOSE d \in 0..9 : <<"0","1","2","3","4","5","6","7","8","9">>[d + 1] = c

RECURSIVE DigitsVal(_)
DigitsVal(s) ==
  IF s = <<>> THEN 0
  ELSE 10 * DigitsVal(SubSeq(s, 1, Len(s) - 1)) + DigitVal(s[Len(s)])

\* the text forms int() and float() accept: optional sign, digits, blanks around
IsNumeral(s) ==
  LET b == Strip(s)
  IN  \/ IsDigit(b)
      \/ Len(b) > 1 /\ b[1] = "-" /\ IsDigit(Tail(b))

NumeralVal(s) ==
  LET b == Strip(s)
  IN  IF b[1] = "-" THEN 0 - DigitsVal(Tail(b)) ELSE DigitsVal(b)

\* int(x) / float(x): does the conversion raise, and what it returns
Converts(x) == x.t = "num" \/ (x.t = "str" /\ IsNumeral(x.v))
NumberOf(x) == IF x.t = "num" THEN x.v ELSE NumeralVal(x.v)

-----------------------------------------------------------------------------
(* Keys and addresses *)

MagicPrefix == <<"0","x","9","4","0","2">>

\* funder.lower().startswith("0x9402")
Magic(funder) == StartsWith(Lower(funder), MagicPrefix)

\* eth_utils.to_checksum_address: raises on anything but 40 hex digits with
\* or without 0x; the casing of the result depends on the lower-case form
\* only (here the letters at odd positions are upper-cased, in place of the
\* keccak rule).  The handlers keep the raw text when it raises.
IsAddress(s) ==
  \/ /\ Len(s) = 42
     /\ Lower(SubSeq(s, 1, 2)) = <<"0","x">>
     /\ \A i \in 3..42 : s[i] \in HexChars
  \/ /\ Len(s) = 40
     /\ \A i \in 1..40 : s[i] \in HexChars

ChecksumCase(s) ==
  [i \in 1..Len(s) |->
     IF i > 2 /\ i % 2 = 1 THEN UpperC(LowerC(s[i])) ELSE LowerC(s[i])]

to_checksum_address(s) ==
  IF ~IsAddress(s) THEN s
  ELSE IF Len(s) = 40 THEN ChecksumCase(<<"0","x">> \o s)
  ELSE ChecksumCase(s)

KeyA == Rep("a", 64)
KeyM == Rep("b", 64)

AddrA == ChecksumCase(<<"0","x">> \o Rep("a", 40))
AddrM == ChecksumCase(MagicPrefix \o Rep("c", 36))
AddrP == ChecksumCase(<<"0","x">> \o Rep("d", 40))
AddrMP == ChecksumCase(MagicPrefix \o Rep("e", 36))

\* Account.from_key(pk): 32 bytes of hex or it raises; .address is checksummed
ValidKey(pk) == Len(pk) = 64 /\ \A i \in 1..64 : pk[i] \in HexChars

DerivedAddress(pk) ==
  IF Lower(pk) = KeyA THEN AddrA
  ELSE IF Lower(pk) = KeyM THEN AddrM
  ELSE ChecksumCase(<<"0","x">> \o Rep("f", 40))

\* pk[2:] after a 0x prefix, then the non-hex characters removed
CleanKey(pk) ==
  OnlyHex(IF StartsWith(Lower(pk), <<"0","x">>) THEN SubSeq(pk, 3, Len(pk)) ELSE pk)

-----------------------------------------------------------------------------
(* Responses of the handlers, answers of the outside world *)

Reply(code, body) == [code |-> code, body |-> body]

\* what the rate_limit wrapper returns when the gate denies: None
NoReply == Reply(0, Null)

Field(r, name, default) == IF name \in DOMAIN r THEN r[name] ELSE default

\* an HTTP answer, or the exception requests raises (timeout, bad JSON)
Http(status, body) == [kind |-> "http", status |-> status, body |-> body]
Raised == [kind |-> "raise"]
Answered == [kind |-> "ok"]

Call(name, arg, answer) == [call |-> name, arg |-> arg, answer |-> answer]

Activity(proxy) == [t |-> "obj", proxyWallet |-> proxy]

-----------------------------------------------------------------------------
(* The settings store (db.get_settings / db.save_settings) and the session *)

NoSettings == [t |-> "none"]

Row(pk, funder, sig_type) ==
  [t |-> "row", private_key |-> pk, funder |-> funder, signature_type |-> sig_type]

get_settings(store) == store

save_settings(store, pk, funder, sig_type) == Row(pk, funder, sig_type)

-----------------------------------------------------------------------------
(* WalletService.detect_proxy: the proxy wallet as text, <<>> for None *)

\* detect_proxy without the comparison of the proxy with the address itself
detect_proxy_any(address, r) ==
  IF r.kind = "raise" THEN <<>>
  ELSE IF r.status # 200 THEN <<>>
  ELSE IF r.body.t # "list" THEN <<>>
  ELSE IF Len(r.body.v) = 0 THEN <<>>
  ELSE LET first == r.body.v[1]
       IN  IF first.t # "obj" THEN <<>>
           ELSE IF Falsy(first.proxyWallet) THEN <<>>
           ELSE IF first.proxyWallet.t # "str" THEN <<>>
           ELSE first.proxyWallet.v

detect_proxy(address, r) ==
  IF r.kind = "raise" THEN <<>>
  ELSE IF r.status # 200 THEN <<>>
  ELSE IF r.body.t # "list" THEN <<>>
  ELSE IF Len(r.body.v) = 0 THEN <<>>
  ELSE LET first == r.body.v[1]
       IN  IF first.t # "obj" THEN <<>>
           ELSE IF Falsy(first.proxyWallet) THEN <<>>
           ELSE IF first.proxyWallet.t # "str" THEN <<>>
           ELSE IF Lower(first.proxyWallet.v) # Lower(address)
                THEN first.proxyWallet.v
                ELSE <<>>

-----------------------------------------------------------------------------
(* app.py set_creds *)

Outcome(r, sess, store, n) == [res |-> r, session |-> sess, settings |-> store, net |-> n]

\* WalletMode that, for signature type 2, falls back to the derived address
WalletMode_derived(funder, sig_type, derived_addr, detected) ==
  IF sig_type = 2
  THEN IF detected # <<>> THEN <<detected, 2>> ELSE <<derived_addr, 2>>
  ELSE IF funder # <<>> /\ Lower(funder) # Lower(derived_addr) THEN <<funder, 2>>
       ELSE IF funder = <<>>
            THEN IF detected # <<>> THEN <<detected, 2>> ELSE <<derived_addr, 0>>
            ELSE <<funder, sig_type>>

\* the (funder, signature type) pair set_creds settles on, given the answer
\* of proxy detection (<<>> when it found nothing or was not asked)
WalletMode(funder, sig_type, derived_addr, detected) ==
  IF sig_type = 2
  THEN IF funder = <<>> THEN <<detected, 2>> ELSE <<funder, 2>>
  ELSE IF funder # <<>> /\ Lower(funder) # Lower(derived_addr) THEN <<funder, 2>>
       ELSE IF funder = <<>>
            THEN IF detected # <<>> THEN <<detected, 2>> ELSE <<derived_addr, 0>>
            ELSE <<funder, sig_type>>

set_creds(data, sess, store, env) ==
  LET pk == CleanKey(Strip(OrEmpty(data.private_key)))
      funder == Strip(OrEmpty(data.funder))
      sig_in == IF Falsy(data.signature_type) THEN Num(0) ELSE data.signature_type
  IN
  IF ~Converts(sig_in)
  THEN Outcome(Reply(500, [error |-> "invalid literal for int()"]), sess, store, <<>>)
  ELSE IF pk = <<>>
  THEN Outcome(Reply(400, [error |-> "missing credentials"]), sess, store, <<>>)
  ELSE IF ~ValidKey(pk)
  THEN Outcome(Reply(400, [error |-> "Invalid Private Key"]), sess, store, <<>>)
  ELSE
  LET sig_type == NumberOf(sig_in)
      derived_addr == DerivedAddress(pk)
      n == IF funder = <<>> THEN <<Call("activity", derived_addr, env.activity)>> ELSE <<>>
      detected == IF funder = <<>> THEN detect_proxy(derived_addr, env.activity) ELSE <<>>
      mode == WalletMode(funder, sig_type, derived_addr, detected)
      saved == Row(pk, mode[1], mode[2])
  IN
  IF sig_type = 2 /\ funder = <<>> /\ detected = <<>>
  THEN Outcome(Reply(400, [error |-> "Could not auto-detect Proxy Address. Please enter manually."]),
               sess, store, n)
  ELSE IF env.save = "raise"
  THEN Outcome(Reply(500, [error |-> "database is locked"]), saved, store, n)
  ELSE Outcome(Reply(200, [ok |-> TRUE, funder |-> mode[1], signature_type |-> mode[2]]),
               saved, save_settings(store, pk, mode[1], mode[2]), n)

-----------------------------------------------------------------------------
(* json.loads and str() on the values the market service handles *)

Found1(s, c) == {i \in 1..Len(s) : s[i] = c}

RECURSIVE Split(_, _)
Split(s, sep) ==
  IF Found1(s, sep) = {} THEN <<s>>
  ELSE LET i == SetMin(Found1(s, sep))
       IN  <<SubSeq(s, 1, i - 1)>> \o Split(SubSeq(s, i + 1, Len(s)), sep)

Parsed(v) == [ok |-> TRUE, v |-> v]
ParseError == [ok |-> FALSE, v |-> Null]

\* a JSON scalar: a quoted text without escapes, an integer, or null
json_scalar(b) ==
  IF Len(b) >= 2 /\ b[1] = "\"" /\ b[Len(b)] = "\"" /\ Found1(SubSeq(b, 2, Len(b) - 1), "\"") = {}
  THEN Parsed(Str(SubSeq(b, 2, Len(b) - 1)))
  ELSE IF IsNumeral(b) /\ Found1(b, " ") = {} THEN Parsed(Num(NumeralVal(b)))
  ELSE IF b = <<"n","u","l","l">> THEN Parsed(Null)
  ELSE ParseError

\* json.loads of a scalar or of a flat array of scalars; anything else raises
json_loads(s) ==
  LET b == Strip(s)
  IN  IF Len(b) >= 2 /\ b[1] = "[" /\ b[Len(b)] = "]"
      THEN LET inner == SubSeq(b, 2, Len(b) - 1)
               parts == Split(inner, ",")
               items == [i \in 1..Len(parts) |-> json_scalar(Strip(parts[i]))]
           IN  IF Strip(inner) = <<>> THEN Parsed(List(<<>>))
               ELSE IF \A i \in 1..Len(parts) : items[i].ok
               THEN Parsed(List([i \in 1..Len(parts) |-> items[i].v]))
               ELSE ParseError
      ELSE json_scalar(b)

RECURSIVE NatText(_)
NatText(n) ==
  IF n < 10 THEN <<<<"0","1","2","3","4","5","6","7","8","9">>[n + 1]>>
  ELSE NatText(n \div 10) \o NatText(n % 10)

\* str(x)
str(x) ==
  IF x.t = "str" THEN x.v
  ELSE IF x.t = "num" THEN (IF x.v < 0 THEN <<"-">> \o NatText(0 - x.v) ELSE NatText(x.v))
  ELSE IF x.t = "null" THEN <<"N","o","n","e">>
  ELSE <<"{","}">>

-----------------------------------------------------------------------------
(* MarketService *)

Market(tokens, outs) == [t |-> "obj", clobTokenIds |-> tokens, outcomes |-> outs]

Ret(v) == [k |-> "ret", v |-> v]
Raise(e) == [k |-> "raise", e |-> e]

get_market_by_slug(answer) ==
  IF answer.kind = "raise" THEN Null
  ELSE IF answer.status # 200 THEN Null
  ELSE IF answer.body.t # "list" THEN Null
  ELSE IF Len(answer.body.v) = 0 THEN Null
  ELSE answer.body.v[1]

\* labels compared as written, letter case and blanks included
MatchLabel_exact(outs, outcome) ==
  LET hits == {i \in 1..Len(outs) : str(outs[i]) = str(outcome)}
  IN  IF hits = {} THEN 0 ELSE SetMin(hits)

\* the index of the first outcome label equal to the wanted one; 0 for None
MatchLabel(outs, outcome) ==
  LET hits == {i \in 1..Len(outs) :
                 Lower(Strip(str(outs[i]))) = Lower(Strip(str(outcome)))}
  IN  IF hits = {} THEN 0 ELSE SetMin(hits)

\* tokens[idx] of Python: a negative idx counts from the end
PyIndex(tokens, idx) ==
  IF idx >= 0 THEN Ret(tokens[idx + 1])
  ELSE IF Len(tokens) + idx >= 0 THEN Ret(tokens[Len(tokens) + idx + 1])
  ELSE Raise("list index out of range")

pick_token(tokens_in, idx) ==
  IF tokens_in.t = "str" /\ ~json_loads(tokens_in.v).ok THEN Raise("JSONDecodeError")
  ELSE LET tokens == IF tokens_in.t = "str" THEN json_loads(tokens_in.v).v ELSE tokens_in
       IN  IF tokens.t # "list" THEN Ret(Null)
           ELSE IF idx >= Len(tokens.v) THEN Ret(Null)
           ELSE PyIndex(tokens.v, idx)

resolve_token_id(answer, outcome_index, outcome) ==
  LET m == get_market_by_slug(answer)
  IN
  IF Falsy(m) THEN Ret(Null)
  ELSE IF m.t # "obj" THEN Raise("object has no attribute 'get'")
  ELSE IF outcome_index.t = "num" THEN pick_token(m.clobTokenIds, outcome_index.v)
  ELSE IF m.outcomes.t = "str" /\ ~json_loads(m.outcomes.v).ok THEN Raise("JSONDecodeError")
  ELSE LET outs == IF m.outcomes.t = "str" THEN json_loads(m.outcomes.v).v ELSE m.outcomes
           found == IF outs.t = "list" /\ outcome.t # "null"
                    THEN MatchLabel(outs.v, outcome) ELSE 0
       IN  IF found = 0 THEN Ret(Null) ELSE pick_token(m.clobTokenIds, found - 1)

-----------------------------------------------------------------------------
(* services/utils.py: the shared RateLimiter *)

limit == 10
window == 1

\* readings of the clock per second: time is counted in ticks
Ticks == 2

\* [t for t in self.calls if t > now - self.window]
recent(stamps, t) == SelectSeq(stamps, LAMBDA c : c > t - window * Ticks)

\* the gate that admits whatever it holds
allow_open(stamps, t) == [ok |-> TRUE, calls |-> Append(recent(stamps, t), t)]

allow(stamps, t) ==
  LET kept == recent(stamps, t)
  IN  IF Len(kept) >= limit
      THEN [ok |-> FALSE, calls |-> kept]
      ELSE [ok |-> TRUE, calls |-> Append(kept, t)]

-----------------------------------------------------------------------------
(* TradeService *)

\* every order posted fill-or-kill
PostType_fok(kind) == "FOK"

\* the persistence each kind of order is posted with
PostType(kind) == IF kind = "market" THEN "FOK" ELSE "GTC"

MarketOrderArgs(token_id, amount, side) ==
  [kind |-> "market", token_id |-> token_id, amount |-> amount, side |-> side]

OrderArgs(price, size, side, token_id) ==
  [kind |-> "limit", token_id |-> token_id, price |-> price, size |-> size, side |-> side]

\* what the venue can answer to post_order: a receipt, a response that
\* reports the order declined, a bare order id, or an exception of the client
Receipt == [t |-> "obj", success |-> TRUE, errorMsg |-> "", orderID |-> "0xorder"]
Declined == [t |-> "obj", success |-> FALSE, errorMsg |-> "not enough balance / allowance", orderID |-> ""]
PostAnswers == { Ret(Receipt), Ret(Declined), Ret(Str(<<"7">>)), Raise("PolyApiException[status_code=400]") }

Posting(order, type, answer) == [order |-> order, type |-> type, answer |-> answer]

\* the end of the executor: what it returns or raises, and the posts it made
Done(result, posts) == [result |-> result, posted |-> posts]

\* submit that posts the order again when post_order raised
submit_retry(order) ==
  {Done(Raise("order could not be signed"), <<>>)}
  \cup {Done(a, <<Posting(order, PostType(order.kind), a)>>) : a \in {x \in PostAnswers : x.k = "ret"}}
  \cup {Done(a, <<Posting(order, PostType(order.kind), Raise("PolyApiException[status_code=400]")),
                  Posting(order, PostType(order.kind), a)>>) : a \in PostAnswers}

\* client.create_order / create_market_order, then one client.post_order
submit(order) ==
  {Done(Raise("order could not be signed"), <<>>)}
  \cup {Done(a, <<Posting(order, PostType(order.kind), a)>>) : a \in PostAnswers}

TradeService_place_order(token_id, side, size, price, usdc_amount) ==
  LET sgn_side == IF Upper(side) = <<"B","U","Y">> THEN "BUY" ELSE "SELL"
      amount == IF sgn_side = "BUY" THEN usdc_amount ELSE size
  IN
  IF price.t = "null"
  THEN IF Falsy(amount)
       THEN {Done(Raise(IF sgn_side = "BUY" THEN "Buy Market requires Amount (USDC)"
                        ELSE "Sell Market requires Size (Shares)"), <<>>)}
       ELSE IF ~Converts(amount) THEN {Done(Raise("could not convert string to float"), <<>>)}
       ELSE submit(MarketOrderArgs(token_id, NumberOf(amount), sgn_side))
  ELSE IF Falsy(size) THEN {Done(Raise("Limit Order requires Size"), <<>>)}
       ELSE IF ~Converts(price) \/ ~Converts(size)
       THEN {Done(Raise("could not convert string to float"), <<>>)}
       ELSE submit(OrderArgs(NumberOf(price), NumberOf(size), sgn_side, token_id))

\* TradeService.get_client: the API credentials are derived over the network,
\* then the client is built with the wallet mode
Client(pk, sig_type, funder) == [key |-> pk, signature_type |-> sig_type, funder |-> funder]

-----------------------------------------------------------------------------
(* app.py place_order and repeat_order, behind the gate *)

Ended(r, n, b, p) == [res |-> r, net |-> n, built |-> b, posted |-> p]

Failure(msg) == [success |-> FALSE, error |-> msg]

\* resp if isinstance(resp, dict) else {"orderId": resp}; resp["success"] = True
Success(resp) ==
  IF resp.t = "obj" THEN [resp EXCEPT !.success = TRUE]
  ELSE [t |-> "obj", orderId |-> resp, success |-> TRUE]

\* TradeService.get_client, TradeService.place_order and the handler's reply
execute(pk, sig_type, funder, token_id, side, size, price, usdc_amount, n) ==
  LET asked(c) == n \o <<Call("derive_api_creds", pk, c)>>
  IN  {Ended(Reply(400, Failure("could not derive api creds")), asked(Raised), <<>>, <<>>)}
      \cup
      {Ended(IF d.result.k = "raise"
             THEN Reply(400, Failure(d.result.e))
             ELSE Reply(200, Success(d.result.v)),
             asked(Answered), <<Client(pk, sig_type, funder)>>, d.posted) :
         d \in TradeService_place_order(token_id, side, size, price, usdc_amount)}

\* the funder and signature type the handlers hand to get_client
clean_funder(store) ==
  IF store.funder # <<>> THEN to_checksum_address(store.funder) ELSE <<>>

forced_sig_type(store) ==
  IF store.funder # <<>> /\ Magic(clean_funder(store)) THEN 2 ELSE store.signature_type

place_order(data, store, markets) ==
  LET slug == Strip(OrEmpty(data.slug))
      side == Upper(Strip(OrEmpty(data.side)))
      pk == CleanKey(store.private_key)
      go(token_id, n) ==
        execute(pk, forced_sig_type(store), clean_funder(store), token_id, side,
                data.size, data.price, data.usdc_amount, n)
      resolved(a) ==
        LET t == resolve_token_id(a, Null, data.outcome)
            n == <<Call("markets", slug, a)>>
        IN  IF t.k = "raise" THEN {Ended(Reply(400, Failure(t.e)), n, <<>>, <<>>)}
            ELSE IF Falsy(t.v)
            THEN {Ended(Reply(400, Failure("Could not resolve Token ID")), n, <<>>, <<>>)}
            ELSE go(t.v, n)
  IN
  IF side \notin {<<"B","U","Y">>, <<"S","E","L","L">>}
  THEN {Ended(Reply(400, Failure("Invalid side")), <<>>, <<>>, <<>>)}
  ELSE IF get_settings(store).t = "none"
  THEN {Ended(Reply(400, [error |-> "No settings"]), <<>>, <<>>, <<>>)}
  ELSE IF store.private_key = <<>>
  THEN {Ended(Reply(400, [error |-> "Missing Private Key"]), <<>>, <<>>, <<>>)}
  ELSE IF IsDigit(slug) /\ Len(slug) > 10 THEN go(Str(slug), <<>>)
  ELSE UNION {resolved(a) : a \in markets}

repeat_order(data, store, markets) ==
  LET slug == Strip(OrEmpty(data.slug))
      side == Strip(OrEmpty(data.side))
      pk == CleanKey(store.private_key)
      resolved(a) ==
        LET t == resolve_token_id(a, data.outcome_index, data.outcome)
            n == <<Call("markets", slug, a)>>
        IN  IF t.k = "raise" THEN {Ended(Reply(400, Failure(t.e)), n, <<>>, <<>>)}
            ELSE IF Falsy(t.v)
            THEN {Ended(Reply(400, Failure("token not found")), n, <<>>, <<>>)}
            ELSE execute(pk, forced_sig_type(store), clean_funder(store), t.v, side,
                         data.size, data.price, data.usdc_size, n)
  IN
  IF slug = <<>> \/ Lower(side) \notin {<<"b","u","y">>, <<"s","e","l","l">>}
  THEN {Ended(Reply(400, Failure("invalid input")), <<>>, <<>>, <<>>)}
  ELSE IF get_settings(store).t = "none"
  THEN {Ended(Reply(400, [error |-> "No settings"]), <<>>, <<>>, <<>>)}
  ELSE IF store.private_key = <<>>
  THEN {Ended(Reply(400, [error |-> "missing credentials"]), <<>>, <<>>, <<>>)}
  ELSE UNION {resolved(a) : a \in markets}

-----------------------------------------------------------------------------
(* Requests to /api/set-creds and the answers of the activity feed *)

Junk(s) == <<" ", "0", "X">> \o SubSeq(s, 1, 10) \o <<"-", "z">> \o SubSeq(s, 11, Len(s)) \o <<" ">>

CredsKeys ==
  { Null, Str(<<"0","x">> \o KeyA), Str(Junk(Upper(KeyA))), Str(KeyM), Str(<<"0","x","1","2">>) }

CredsFunders ==
  { Null, Str(<<" ">>), Str(AddrA), Str(<<" ">> \o Lower(AddrA)), Str(AddrP),
    Str(Lower(AddrM)), Str(AddrMP) }

CredsSigs == { Null, Num(0), Num(1), Num(2), Str(<<"2">>), Str(<<"x">>) }

CredsData ==
  [private_key : CredsKeys, funder : CredsFunders, signature_type : CredsSigs]

ActivityAnswers ==
  { Raised,
    Http(500, Null),
    Http(200, Activity(Str(AddrP))),
    Http(200, List(<<>>)),
    Http(200, List(<<Num(1)>>)),
    Http(200, List(<<Activity(Null)>>)),
    Http(200, List(<<Activity(Str(Lower(AddrA)))>>)),
    Http(200, List(<<Activity(Str(AddrP))>>)),
    Http(200, List(<<Activity(Str(Lower(AddrMP)))>>)) }

SaveAnswers == {"ok", "raise"}

\* what is configured before the request arrives
PriorSettings == { NoSettings, Row(KeyA, AddrP, 2) }

-----------------------------------------------------------------------------
(* The handlers as steps of a request: one pending request, handled once *)

InitCreds ==
  /\ settings \in PriorSettings
  /\ session \in {NoSettings, settings}
  /\ calls = <<>>
  /\ now = 0
  /\ req \in [op : {"set_creds"}, data : CredsData]
  /\ pc = "pending"
  /\ res = NoReply
  /\ net = <<>>
  /\ built = <<>>
  /\ posted = <<>>
  /\ lock = 0
  /\ admitted = <<>>
  /\ trades = <<>>
  /\ tracked_traders = <<>>

SetCreds ==
  /\ pc = "pending"
  /\ req.op = "set_creds"
  /\ \E a \in ActivityAnswers, sv \in SaveAnswers :
       LET o == set_creds(req.data, session, settings, [activity |-> a, save |-> sv])
       IN  /\ res' = o.res
           /\ session' = o.session
           /\ settings' = o.settings
           /\ net' = o.net
  /\ pc' = "done"
  /\ UNCHANGED <<lock, admitted, trades, tracked_traders>>
  /\ UNCHANGED <<calls, now, req, built, posted>>

NextCreds == SetCreds

SpecCreds == InitCreds /\ [][NextCreds]_vars

-----------------------------------------------------------------------------
(* Reading a set_creds request, for the properties below *)

CredsKey == CleanKey(Strip(OrEmpty(req.data.private_key)))
CredsFunder == Strip(OrEmpty(req.data.funder))
CredsSigIs(n) ==
  IF Falsy(req.data.signature_type) THEN n = 0
  ELSE Converts(req.data.signature_type) /\ NumberOf(req.data.signature_type) = n

\* a set_creds request that reaches wallet-mode resolution with signature type n
Resolving(n) == req.op = "set_creds" /\ ValidKey(CredsKey) /\ CredsSigIs(n)

\* the activity feed names a proxy wallet for the address
Found(answer, address) ==
  /\ answer.kind = "http"
  /\ answer.status = 200
  /\ answer.body.t = "list"
  /\ Len(answer.body.v) > 0
  /\ answer.body.v[1].t = "obj"
  /\ answer.body.v[1].proxyWallet.t = "str"
  /\ answer.body.v[1].proxyWallet.v # <<>>
  /\ Lower(answer.body.v[1].proxyWallet.v) # Lower(address)

AskedFeed(n) == Len(n) = 1 /\ n[1].call = "activity" /\ n[1].arg = DerivedAddress(CredsKey)

SaveFailed(r) == r.code = 500 /\ r.body = [error |-> "database is locked"]

ProxyAddressRequired(r) ==
  r.code = 400 /\ r.body = [error |-> "Could not auto-detect Proxy Address. Please enter manually."]

\* the request ended with the wallet mode (funder, sig_type): the session holds
\* it, and unless the save failed so do the response and the settings store
Resolved(r, sess, store, funder, sig_type) ==
  /\ sess = Row(CredsKey, funder, sig_type)
  /\ \/ SaveFailed(r)
     \/ /\ r.code = 200
        /\ r.body.funder = funder
        /\ r.body.signature_type = sig_type
        /\ store = sess

\* C7: a resolved funder that starts with 0x9402 (in any letter case) always
\* goes with signature type PROXY(2): in what set_creds returns and stores,
\* and in every exchange client that place_order, repeat_order and the
\* balance query build.
C7_MagicFunderIsProxy ==
  /\ (settings.t = "row" /\ Magic(settings.funder)) => settings.signature_type = 2
  /\ (pc = "done" /\ req.op = "set_creds" /\ res.code = 200 /\ Magic(res.body.funder))
        => res.body.signature_type = 2
  /\ \A i \in DOMAIN built : Magic(built[i].funder) => built[i].signature_type = 2

\* C8: set_creds with signature type PROXY(2).  Without a funder it asks the
\* activity feed once and, when that names no proxy, fails with
\* ProxyAddressRequired and leaves session and settings as they were; with a
\* funder it keeps funder and PROXY(2) and asks nothing.
C8_ProxyMode ==
  [][ (pc = "pending" /\ pc' = "done" /\ Resolving(2)) =>
        IF CredsFunder = <<>>
        THEN /\ AskedFeed(net')
             /\ ~Found(net'[1].answer, DerivedAddress(CredsKey)) =>
                  /\ ProxyAddressRequired(res')
                  /\ settings' = settings
                  /\ session' = session
        ELSE /\ net' = <<>>
             /\ Resolved(res', session', settings', CredsFunder, 2) ]_vars

C8_Witness ==
  /\ pc = "done" /\ Resolving(2) /\ CredsFunder = <<>>
  /\ ProxyAddressRequired(res)
  /\ settings = Row(KeyA, AddrP, 2)

\* C9: set_creds with signature type 0 or none.  A funder that differs from
\* the derived address (letter case aside) gives (funder, PROXY(2)); without a
\* funder a named proxy gives (proxy, PROXY(2)) and anything else the feed
\* does, failures included, gives (derived address, EOA(0)), not an error.
C9_EoaMode ==
  (pc = "done" /\ Resolving(0)) =>
     LET derived == DerivedAddress(CredsKey)
     IN  /\ (CredsFunder # <<>> /\ Lower(CredsFunder) # Lower(derived))
              => Resolved(res, session, settings, CredsFunder, 2)
         /\ CredsFunder = <<>> =>
              /\ AskedFeed(net)
              /\ Found(net[1].answer, derived)
                   => Resolved(res, session, settings, net[1].answer.body.v[1].proxyWallet.v, 2)
              /\ ~Found(net[1].answer, derived)
                   => Resolved(res, session, settings, derived, 0)

C9_Witness ==
  /\ pc = "done" /\ Resolving(0) /\ CredsFunder = <<>>
  /\ AskedFeed(net) /\ net[1].answer = Raised
  /\ res.code = 200 /\ res.body.signature_type = 0 /\ res.body.funder = AddrA

\* C10: set_creds with signature type EOA and a funder equal to the derived
\* address, letter case aside, answers signature type EOA and funder = the
\* derived address, and issues no network call.
C10_EoaOwnAddress ==
  (/\ pc = "done" /\ Resolving(0) /\ res.code = 200
   /\ CredsFunder # <<>> /\ Lower(CredsFunder) = Lower(DerivedAddress(CredsKey)))
     => /\ res.body.signature_type = 0
        /\ res.body.funder = DerivedAddress(CredsKey)
        /\ net = <<>>

-----------------------------------------------------------------------------
(* Order requests, the market service's answers, the configured wallets *)

Slug == <<"w","i","l","l","-","i","t","-","r","a","i","n">>
TokenYes == <<"1","1","1">>
TokenNo == <<"2","2","2">>
LiteralToken == Rep("7", 11)

Yes == <<"Y","e","s">>
No == <<"N","o">>

\* json.dumps of a list of texts
dumps(texts) ==
  LET quoted(i) == <<"\"">> \o texts[i] \o <<"\"">>
      join[i \in 0..Len(texts)] ==
        IF i = 0 THEN <<>>
        ELSE IF i = 1 THEN quoted(1)
        ELSE join[i - 1] \o <<",", " ">> \o quoted(i)
  IN  <<"[">> \o join[Len(texts)] \o <<"]">>

MarketAnswers ==
  { Raised,
    Http(404, Null),
    Http(200, List(<<>>)),
    Http(200, List(<<Str(<<"o","o","p","s">>)>>)),
    Http(200, List(<<Market(List(<<Str(TokenYes), Str(TokenNo)>>), List(<<Str(Yes), Str(No)>>))>>)),
    Http(200, List(<<Market(Str(dumps(<<TokenYes, TokenNo>>)), Str(dumps(<<Yes, No>>)))>>)) }

Sides == { Str(<<"b","u","y">>), Str(<<" ","S","E","L","L">>), Str(<<"h","o","l","d">>) }
Prices == { Null, Str(<<>>), Num(35) }
Sizes == { Null, Num(0), Num(20) }
Amounts == { Null, Num(1000), Num(0 - 5), Str(<<"0">>) }

PlaceData ==
  [slug : {Str(Slug), Str(LiteralToken)},
   outcome : {Null, Str(Yes), Str(No), Str(<<" ","n","O">>)},
   side : Sides,
   order_type : {Null, Str(<<"L","I","M","I","T">>)},
   price : Prices,
   size : Sizes,
   usdc_amount : Amounts]

RepeatData ==
  [slug : {Null, Str(Slug), Str(LiteralToken)},
   outcome : {Null, Str(Yes), Str(<<"M","a","y","b","e">>)},
   outcome_index : {Null, Num(1), Num(2), Num(0 - 1)},
   side : Sides,
   price : {Null, Num(35)},
   size : Sizes,
   usdc_size : {Null, Num(1000), Num(0 - 5)}]

\* the rows set_creds stores, for a few submissions of credentials
StoredBy(key, funder, sig_type, answer) ==
  set_creds([private_key |-> key, funder |-> funder, signature_type |-> sig_type],
            NoSettings, NoSettings, [activity |-> answer, save |-> "ok"]).settings

OrderSettings ==
  { NoSettings,
    StoredBy(Str(KeyA), Null, Num(0), Raised),
    StoredBy(Str(KeyA), Str(AddrP), Num(2), Raised),
    StoredBy(Str(KeyM), Str(Lower(AddrM)), Num(0), Raised) }

\* the gate just before the request: idle, full of calls of this instant, or
\* holding the calls of a window ago
GateStates == { <<>>, Rep(5, limit), Rep(5 - window * Ticks, limit) }

InitOrder ==
  /\ settings \in OrderSettings
  /\ session = NoSettings
  /\ now = 5
  /\ calls \in GateStates
  /\ req \in [op : {"place_order"}, data : PlaceData] \cup [op : {"repeat_order"}, data : RepeatData]
  /\ pc = "pending"
  /\ res = NoReply
  /\ net = <<>>
  /\ built = <<>>
  /\ posted = <<>>
  /\ lock = 0
  /\ admitted = <<>>
  /\ trades = <<>>
  /\ tracked_traders = <<>>

Denied ==
  /\ res' = NoReply
  /\ UNCHANGED <<net, built, posted>>

Handled(o) ==
  /\ res' = o.res
  /\ net' = o.net
  /\ built' = o.built
  /\ posted' = o.posted

PlaceOrder ==
  /\ pc = "pending"
  /\ req.op = "place_order"
  /\ calls' = allow(calls, now).calls
  /\ IF allow(calls, now).ok
     THEN \E o \in place_order(req.data, settings, MarketAnswers) : Handled(o)
     ELSE Denied
  /\ pc' = "done"
  /\ UNCHANGED <<lock, admitted, trades, tracked_traders>>
  /\ UNCHANGED <<settings, session, now, req>>

RepeatOrder ==
  /\ pc = "pending"
  /\ req.op = "repeat_order"
  /\ calls' = allow(calls, now).calls
  /\ IF allow(calls, now).ok
     THEN \E o \in repeat_order(req.data, settings, MarketAnswers) : Handled(o)
     ELSE Denied
  /\ pc' = "done"
  /\ UNCHANGED <<lock, admitted, trades, tracked_traders>>
  /\ UNCHANGED <<settings, session, now, req>>

NextOrder == PlaceOrder \/ RepeatOrder

SpecOrder == InitOrder /\ [][NextOrder]_vars

-----------------------------------------------------------------------------
(* Reading an order request and its trace, for the properties below *)

OrderOp == req.op \in {"place_order", "repeat_order"}

\* the venue refused the posted order: the client raised, or the response
\* itself reports failure
Refused(answer) ==
  \/ answer.k = "raise"
  \/ answer.k = "ret" /\ answer.v.t = "obj" /\ ~answer.v.success

VenueError(answer) == IF answer.k = "raise" THEN answer.e ELSE answer.v.errorMsg

\* the notional of the request (usdc_amount to place_order, usdc_size to repeat_order)
Notional == IF req.op = "place_order" THEN req.data.usdc_amount ELSE req.data.usdc_size

WantedSide == IF Upper(Strip(OrEmpty(req.data.side))) = <<"B","U","Y">> THEN "BUY" ELSE "SELL"

WantedKind ==
  IF Falsy(req.data.order_type) THEN <<"M","A","R","K","E","T">>
  ELSE Upper(Strip(req.data.order_type.v))

Absent(x) == x.t = "null" \/ (x.t = "str" /\ Strip(x.v) = <<>>)

\* the market record the lookup of this request returned, if any
Looked == net # <<>> /\ net[1].call = "markets"

MarketFound(answer) ==
  /\ answer.kind = "http"
  /\ answer.status = 200
  /\ answer.body.t = "list"
  /\ Len(answer.body.v) > 0
  /\ answer.body.v[1].t = "obj"

Decoded(x) ==
  IF x.t # "str" THEN x
  ELSE IF json_loads(x.v).ok THEN json_loads(x.v).v ELSE Null

WantedIndex == Field(req.data, "outcome_index", Null)

\* market, outcome or token index of the request cannot be resolved
ResolutionFails ==
  LET m == net[1].answer.body.v[1]
      tokens == Decoded(m.clobTokenIds)
      labels == Decoded(m.outcomes)
  IN  \/ ~MarketFound(net[1].answer)
      \/ tokens.t # "list"
      \/ /\ WantedIndex.t = "num"
         /\ (WantedIndex.v < 0 \/ WantedIndex.v >= Len(tokens.v))
      \/ /\ WantedIndex.t # "num"
         /\ \/ labels.t # "list"
            \/ req.data.outcome.t = "null"
            \/ MatchLabel(labels.v, req.data.outcome) = 0
            \/ MatchLabel(labels.v, req.data.outcome) > Len(tokens.v)

\* C1: when the post of the order fails or the venue declines it (the client
\* raises, or the response reports failure), place_order / repeat_order answer
\* a failure that carries the venue's error; never success = true.
C1_RefusalSurfaced ==
  \A i \in DOMAIN posted :
    Refused(posted[i].answer) =>
      /\ res.code # 200
      /\ ~res.body.success
      /\ res.body.error = VenueError(posted[i].answer)

\* C2: when market resolution fails (no or malformed market, outcome not
\* resolved, token index out of range) the handler answers a failure, derives
\* no API credentials, builds no exchange client and posts nothing.
C2_NothingOnResolutionFailure ==
  (pc = "done" /\ OrderOp /\ Looked /\ ResolutionFails) =>
     /\ res.code = 400
     /\ Len(net) = 1
     /\ built = <<>>
     /\ posted = <<>>

\* C3: a request posts at most one order: exactly one when the executor
\* returned a receipt, and never a second one after a rejection or exception.
C3_OnePost ==
  (pc = "done" /\ OrderOp) =>
     /\ Len(posted) <= 1
     /\ res.code = 200 => Len(posted) = 1

C3_Witness ==
  /\ pc = "done" /\ OrderOp
  /\ Len(posted) = 1
  /\ posted[1].answer.k = "raise"
  /\ res.code = 400

\* C4: a market order carries the notional for BUY and the size for SELL, and
\* none with an amount <= 0 reaches the venue.
C4_MarketAmount ==
  \A i \in DOMAIN posted :
    posted[i].order.kind = "market" =>
      /\ posted[i].order.amount > 0
      /\ posted[i].order.amount = NumberOf(IF WantedSide = "BUY" THEN Notional ELSE req.data.size)

\* C5: every market order is posted fill-or-kill and every limit order
\* good-till-cancelled, never the other way round.
C5_PostTypes ==
  \A i \in DOMAIN posted :
    /\ posted[i].order.kind = "market" => posted[i].type = "FOK"
    /\ posted[i].order.kind = "limit" => posted[i].type = "GTC"

C5_Witness ==
  /\ pc = "done" /\ OrderOp
  /\ Len(posted) = 1
  /\ posted[1].order.kind = "limit"
  /\ posted[1].type = "GTC"
  /\ res.code = 200

\* C6: a request of kind LIMIT that lacks a price or a size is rejected and
\* no order, limit or market, is posted for it.
C6_LimitNeedsPriceAndSize ==
  (/\ pc = "done" /\ req.op = "place_order"
   /\ WantedKind = <<"L","I","M","I","T">>
   /\ (Absent(req.data.price) \/ Absent(req.data.size)))
     => /\ res.code # 200
        /\ posted = <<>>

\* the market identifier of the request, as the handlers read it
WantedSlug == Strip(OrEmpty(req.data.slug))

\* C11: an identifier that is purely numeric and longer than 10 characters is
\* the token id as it stands: place_order and repeat_order issue no market
\* lookup for it and every order they post carries it unchanged.
C11_NumericIdIsToken ==
  (pc = "done" /\ OrderOp /\ IsDigit(WantedSlug) /\ Len(WantedSlug) > 10) =>
     /\ \A i \in DOMAIN net : net[i].call # "markets"
     /\ \A i \in DOMAIN posted : posted[i].order.token_id = Str(WantedSlug)

-----------------------------------------------------------------------------
(* MarketService.resolve_token_id on its own: market records, selectors *)

TokenA == <<"3","3","3">>
TokenB == <<"4","4","4">>
TokenC == <<"5","5","5">>
Maybe == <<"M","a","y","b","e">>

\* a sequence field of a market record as the feed sends it: native, or as
\* the JSON text of the sequence
Native(texts) == List([i \in 1..Len(texts) |-> Str(texts[i])])
Encoded(texts) == Str(dumps(texts))

TokenLists ==
  { <<>>, <<TokenA>>, <<TokenYes, TokenNo>>, <<TokenA, TokenB>>, <<TokenA, TokenB, TokenC>> }

LabelLists ==
  { <<Yes, No>>, <<No, Yes>>, <<Yes, <<"y","e","s">>, No>>, <<Yes, No, Maybe>> }

ResolveMarkets ==
  { Market(tokens, outs) :
      tokens \in {Native(l) : l \in TokenLists} \cup {Encoded(l) : l \in TokenLists},
      outs \in {Native(l) : l \in LabelLists} \cup {Encoded(l) : l \in LabelLists} }

ResolveAnswers ==
  { Raised, Http(500, Null), Http(200, List(<<>>)) }
  \cup { Http(200, List(<<m>>)) : m \in ResolveMarkets }

Indexes == { Null, Num(0 - 3), Num(0 - 1), Num(0), Num(1), Num(2), Num(3) }

Labels ==
  { Null, Str(Yes), Str(<<"y","e","s">>), Str(<<" ","Y","E","S"," ">>),
    Str(No), Str(<<"n","O"," ">>), Str(Maybe), Str(<<>>), Num(1) }

InitResolve ==
  /\ settings = NoSettings
  /\ session = NoSettings
  /\ now = 0
  /\ calls = <<>>
  /\ req \in [op : {"resolve_token_id"}, slug : {Slug}, answer : ResolveAnswers,
              outcome_index : Indexes, outcome : Labels]
  /\ pc = "pending"
  /\ res = NoReply
  /\ net = <<>>
  /\ built = <<>>
  /\ posted = <<>>
  /\ lock = 0
  /\ admitted = <<>>
  /\ trades = <<>>
  /\ tracked_traders = <<>>

\* one call of MarketService.resolve_token_id(slug, outcome_index, outcome)
Resolve ==
  /\ pc = "pending"
  /\ req.op = "resolve_token_id"
  /\ net' = <<Call("markets", req.slug, req.answer)>>
  /\ res' = resolve_token_id(req.answer, req.outcome_index, req.outcome)
  /\ pc' = "done"
  /\ UNCHANGED <<lock, admitted, trades, tracked_traders>>
  /\ UNCHANGED <<settings, session, calls, now, req, built, posted>>

NextResolve == Resolve

SpecResolve == InitResolve /\ [][NextResolve]_vars

\* the record the lookup of a resolve_token_id call found, and its fields
Resolving_ == pc = "done" /\ req.op = "resolve_token_id" /\ MarketFound(req.answer)
TheMarket == req.answer.body.v[1]
TheTokens == Decoded(TheMarket.clobTokenIds)
TheLabels == Decoded(TheMarket.outcomes)

\* a label equal to the given one up to letter case and surrounding blanks
Says(label, word) == label.t = "str" /\ Lower(Strip(label.v)) = Lower(word)

\* C12: for a market with outcomes ["Yes","No"] and token ids [A,B], and no
\* explicit index: a label equal to "yes" up to case and blanks resolves to A,
\* one equal to "no" to B, and any other label (or none) yields no token id.
C12_YesNoLabels ==
  (/\ Resolving_
   /\ TheLabels = Native(<<Yes, No>>)
   /\ TheTokens.t = "list" /\ Len(TheTokens.v) = 2
   /\ req.outcome_index = Null)
  => IF Says(req.outcome, Yes) THEN res = Ret(TheTokens.v[1])
     ELSE IF Says(req.outcome, No) THEN res = Ret(TheTokens.v[2])
     ELSE res = Ret(Null)

C12_Witness ==
  /\ Resolving_
  /\ TheMarket.outcomes = Encoded(<<Yes, No>>)
  /\ TheMarket.clobTokenIds = Encoded(<<TokenA, TokenB>>)
  /\ req.outcome_index = Null
  /\ req.outcome = Str(<<"n","O"," ">>)
  /\ res = Ret(Str(TokenB))

\* C13: an explicit numeric index that is not a position of the token-id
\* sequence (below 0, or at or above its length) yields no token id; a token
\* id is returned only for 0 .. len-1 and is then token_ids[index].
C13_IndexInRange ==
  (Resolving_ /\ TheTokens.t = "list" /\ req.outcome_index.t = "num") =>
     IF req.outcome_index.v >= 0 /\ req.outcome_index.v < Len(TheTokens.v)
     THEN res = Ret(TheTokens.v[req.outcome_index.v + 1])
     ELSE res.k = "raise" \/ res = Ret(Null)

\* the binary market a place_order request found, and its two token ids
FoundMarket == net[1].answer.body.v[1]
FoundTokens == Decoded(FoundMarket.clobTokenIds)

BinaryChoice ==
  /\ pc = "done" /\ req.op = "place_order"
  /\ Looked /\ MarketFound(net[1].answer)
  /\ Decoded(FoundMarket.outcomes) = Native(<<Yes, No>>)
  /\ FoundTokens.t = "list" /\ Len(FoundTokens.v) = 2

\* the request went on with this token id: credentials asked for, no order
\* for another token
WentOnWith(token) ==
  /\ Len(net) = 2 /\ net[2].call = "derive_api_creds"
  /\ \A i \in DOMAIN posted : posted[i].order.token_id = token

\* C14: a slug request with a yes/no selection and no explicit index takes
\* the token at index 0 for "Yes" or no outcome and the token at index 1 for
\* "No"; BUY MARKET notional 10 on "will-it-rain" with tokens ["111","222"]
\* and no outcome goes on with "111" and posts a fill-or-kill buy of 10.
C14_BinaryDefault ==
  /\ (BinaryChoice /\ req.data.outcome \in {Null, Str(Yes)}) => WentOnWith(FoundTokens.v[1])
  /\ (BinaryChoice /\ req.data.outcome = Str(No)) => WentOnWith(FoundTokens.v[2])
  /\ (/\ BinaryChoice /\ req.data.outcome = Null
      /\ WantedSlug = Slug /\ FoundTokens = Native(<<TokenYes, TokenNo>>)
      /\ WantedSide = "BUY" /\ req.data.price = Null /\ req.data.usdc_amount = Num(1000))
     => \A i \in DOMAIN posted :
          /\ posted[i].order = MarketOrderArgs(Str(TokenYes), 1000, "BUY")
          /\ posted[i].type = "FOK"

-----------------------------------------------------------------------------
(* patch_app_manual.py: the /api/place-order handler the patch installs *)

\* the market lookup of the handler's application: the first record of the
\* answer, None when the service answers nothing usable
legacy_get_market_by_slug(answer) == get_market_by_slug(answer)

\* len(x) and x[i] of Python on a text or a list
PyLen(x) == Len(x.v)
PyItem(x, i) == IF x.t = "str" THEN Str(<<x.v[i + 1]>>) ELSE x.v[i + 1]

\* tokens[1] for the outcome "No", tokens[0] otherwise
manual_token(tokens, outcome) ==
  IF outcome = Str(No) THEN PyItem(tokens, 1) ELSE PyItem(tokens, 0)

manual_order_type(data) ==
  IF Falsy(data.order_type) THEN <<"M","A","R","K","E","T">>
  ELSE Upper(Strip(data.order_type.v))

place_order_manual(data, store, markets) ==
  LET slug == Strip(OrEmpty(data.slug))
      side == Upper(Strip(OrEmpty(data.side)))
      pk == CleanKey(store.private_key)
      sgn_side == IF side = <<"B","U","Y">> THEN "BUY" ELSE "SELL"
      fail(msg, n, b) == {Ended(Reply(400, Failure(msg)), n, b, <<>>)}
      sent(order, n, b) ==
        {Ended(IF d.result.k = "raise" THEN Reply(400, Failure(d.result.e))
               ELSE Reply(200, Success(d.result.v)), n, b, d.posted) : d \in submit(order)}
      trade(token_id, n, b) ==
        IF manual_order_type(data) = <<"M","A","R","K","E","T">>
        THEN LET amount == IF sgn_side = "BUY" THEN data.usdc_amount ELSE data.size
             IN  IF Falsy(amount)
                 THEN fail(IF sgn_side = "BUY" THEN "Buy Market requires Amount (USDC)"
                           ELSE "Sell Market requires Size (Shares)", n, b)
                 ELSE IF ~Converts(amount) THEN fail("could not convert string to float", n, b)
                 ELSE sent(MarketOrderArgs(token_id, NumberOf(amount), sgn_side), n, b)
        ELSE IF Falsy(data.price) \/ Falsy(data.size)
             THEN fail("Limit Order requires Price and Size", n, b)
             ELSE IF ~Converts(data.price) \/ ~Converts(data.size)
             THEN fail("could not convert string to float", n, b)
             ELSE sent(OrderArgs(NumberOf(data.price), NumberOf(data.size), sgn_side, token_id), n, b)
      go(token_id, n) ==
        fail("could not derive api creds", n \o <<Call("derive_api_creds", pk, Raised)>>, <<>>)
        \cup trade(token_id, n \o <<Call("derive_api_creds", pk, Answered)>>,
                   <<Client(pk, forced_sig_type(store), clean_funder(store))>>)
      resolved(a) ==
        LET m == legacy_get_market_by_slug(a)
            n == <<Call("markets", slug, a)>>
        IN  IF Falsy(m) THEN fail("Market not found", n, <<>>)
            ELSE IF m.t # "obj" THEN fail("object has no attribute 'get'", n, <<>>)
            ELSE IF Falsy(m.clobTokenIds) THEN fail("Tokens not found in market", n, <<>>)
            ELSE IF m.clobTokenIds.t \notin {"str", "list"} THEN fail("object has no len()", n, <<>>)
            ELSE IF PyLen(m.clobTokenIds) < 2 THEN fail("Tokens not found in market", n, <<>>)
            ELSE IF Falsy(manual_token(m.clobTokenIds, data.outcome))
            THEN fail("Could not resolve Token ID", n, <<>>)
            ELSE go(manual_token(m.clobTokenIds, data.outcome), n)
  IN
  IF side \notin {<<"B","U","Y">>, <<"S","E","L","L">>}
  THEN {Ended(Reply(400, Failure("Invalid side")), <<>>, <<>>, <<>>)}
  ELSE IF get_settings(store).t = "none"
  THEN {Ended(Reply(400, [error |-> "No settings found. Please configure wallet first."]), <<>>, <<>>, <<>>)}
  ELSE IF store.private_key = <<>>
  THEN {Ended(Reply(400, [error |-> "Missing Private Key"]), <<>>, <<>>, <<>>)}
  ELSE IF IsDigit(slug) /\ Len(slug) > 10 THEN go(Str(slug), <<>>)
  ELSE UNION {resolved(a) : a \in markets}

InitManual ==
  /\ settings \in OrderSettings
  /\ session = NoSettings
  /\ now = 5
  /\ calls = <<>>
  /\ req \in [op : {"place_order_manual"}, data : PlaceData]
  /\ pc = "pending"
  /\ res = NoReply
  /\ net = <<>>
  /\ built = <<>>
  /\ posted = <<>>
  /\ lock = 0
  /\ admitted = <<>>
  /\ trades = <<>>
  /\ tracked_traders = <<>>

PlaceOrderManual ==
  /\ pc = "pending"
  /\ req.op = "place_order_manual"
  /\ \E o \in place_order_manual(req.data, settings, MarketAnswers) : Handled(o)
  /\ pc' = "done"
  /\ UNCHANGED <<lock, admitted, trades, tracked_traders>>
  /\ UNCHANGED <<settings, session, calls, now, req>>

NextManual == PlaceOrderManual

SpecManual == InitManual /\ [][NextManual]_vars

\* C15: a market record's outcomes and clobTokenIds are decoded before they are
\* scanned or indexed, whether they arrive native or as JSON text: the token
\* an order is placed for is the element of the decoded token-id sequence the
\* selector points at, never a character of the encoded text.
C15_DecodedBeforeIndexed ==
  (/\ pc = "done" /\ req.op = "place_order_manual"
   /\ Looked /\ MarketFound(net[1].answer)
   /\ FoundTokens.t = "list" /\ Len(FoundTokens.v) = 2)
  => /\ Field(res.body, "error", "") # "Tokens not found in market"
     /\ \A i \in DOMAIN posted :
          posted[i].order.token_id =
            (IF req.data.outcome = Str(No) THEN FoundTokens.v[2] ELSE FoundTokens.v[1])

-----------------------------------------------------------------------------
(* WalletService.get_balances and the /api/cash handler *)
(* Token and cash figures count millionths of a dollar, the gas figure wei. *)

Million == 1000000

HexDigitVal(c) ==
  CHOOSE n \in 0..15 :
    <<"0","1","2","3","4","5","6","7","8","9","a","b","c","d","e","f">>[n + 1] = LowerC(c)

RECURSIVE HexDigitsVal(_)
HexDigitsVal(s) ==
  IF s = <<>> THEN 0
  ELSE 16 * HexDigitsVal(SubSeq(s, 1, Len(s) - 1)) + HexDigitVal(s[Len(s)])

\* int(res, 16): hex digits after an optional 0x; raises on anything else
IsHex(x) ==
  /\ x.t = "str"
  /\ LET b == IF StartsWith(Lower(x.v), <<"0","x">>) THEN SubSeq(x.v, 3, Len(x.v)) ELSE x.v
     IN  b # <<>> /\ \A i \in DOMAIN b : b[i] \in HexChars

HexVal(x) ==
  HexDigitsVal(IF StartsWith(Lower(x.v), <<"0","x">>) THEN SubSeq(x.v, 3, Len(x.v)) ELSE x.v)

\* the figure a JSON-RPC answer carries; 0 for every failure on the way
rpc_figure(answer) ==
  IF answer.kind = "raise" THEN 0
  ELSE IF answer.status # 200 THEN 0
  ELSE IF answer.body.t # "obj" THEN 0
  ELSE LET result == Field(answer.body, "result", Null)
       IN  IF Falsy(result) THEN 0
           ELSE IF ~IsHex(result) THEN 0
           ELSE HexVal(result)

\* one direct read: the figure, and the request sent if one was sent
Read(v, n) == [v |-> v, net |-> n]

Rpc(method, to, who, answer) == Call(method, [to |-> to, who |-> who], answer)

_get_matic_balance(address, answer) ==
  Read(rpc_figure(answer), <<Rpc("eth_getBalance", "chain", address, answer)>>)

\* owner is None: owner.replace raises before any request
_erc20_allowance(owner, spender, token, answer) ==
  IF owner = <<>> THEN Read(0, <<>>)
  ELSE Read(rpc_figure(answer), <<Rpc("allowance", token, owner, answer)>>)

_erc20_balance(address, token, answer) ==
  LET addr == Lower(Strip(address))
  IN  IF ~StartsWith(addr, <<"0","x">>) \/ Len(addr) # 42 THEN Read(0, <<>>)
      ELSE Read(rpc_figure(answer), <<Rpc("balanceOf", token, addr, answer)>>)

\* float(x.get("balance") or 0), in millionths
Stated(bal) == IF Falsy(bal) THEN 0 ELSE NumberOf(bal) * Million

\* the last COLLATERAL entry wins: the loop without its break
RECURSIVE last_collateral(_)
last_collateral(bals) ==
  IF bals = <<>> THEN Ret(0)
  ELSE IF Head(bals).t # "obj" THEN Raise("object has no attribute 'get'")
  ELSE LET rest == last_collateral(Tail(bals))
           bal == Field(Head(bals), "balance", Null)
       IN  IF Field(Head(bals), "asset_type", "") # "COLLATERAL" THEN rest
           ELSE IF rest.k = "raise" \/ rest.v # 0 THEN rest
           ELSE IF Falsy(bal) \/ Converts(bal) THEN Ret(Stated(bal))
           ELSE Raise("could not convert string to float")

\* the loop over client.get_balance(): the first entry tagged COLLATERAL
RECURSIVE first_collateral(_)
first_collateral(bals) ==
  IF bals = <<>> THEN Ret(0)
  ELSE IF Head(bals).t # "obj" THEN Raise("object has no attribute 'get'")
  ELSE IF Field(Head(bals), "asset_type", "") = "COLLATERAL"
  THEN LET bal == Field(Head(bals), "balance", Null)
       IN  IF Falsy(bal) \/ Converts(bal) THEN Ret(Stated(bal))
           ELSE Raise("could not convert string to float")
  ELSE first_collateral(Tail(bals))

\* the except branch: client.get_balance() and its scan
fallback_cash(b) ==
  IF b.k = "raise" THEN 0
  ELSE IF b.v.t # "list" THEN 0
  ELSE IF first_collateral(b.v.v).k = "raise" THEN 0
  ELSE first_collateral(b.v.v).v

\* the primary call succeeded: its answer is usable as it stands
PrimaryOk(a) ==
  /\ a.k = "ret"
  /\ \/ Falsy(a.v)
     \/ a.v.t # "obj"
     \/ Falsy(Field(a.v, "balance", Null))
     \/ Converts(Field(a.v, "balance", Null))

primary_cash(a) ==
  IF Falsy(a.v) \/ a.v.t # "obj" THEN 0 ELSE Stated(Field(a.v, "balance", Null))

Entry(tag, bal) == [t |-> "obj", asset_type |-> tag, balance |-> bal]

CollateralAnswers ==
  { Raise("PolyApiException[status_code=401]"),
    Ret(Null),
    Ret([t |-> "obj", balance |-> Num(0)]),
    Ret([t |-> "obj", balance |-> Num(12)]),
    Ret([t |-> "obj", balance |-> Str(<<"n","/","a">>)]) }

ListAnswers ==
  { Raise("'ClobClient' object has no attribute 'get_balance'"),
    Ret(Null),
    Ret(List(<<Entry("CONDITIONAL", Num(3))>>)),
    Ret(List(<<Entry("CONDITIONAL", Num(3)), Entry("COLLATERAL", Num(7)), Entry("COLLATERAL", Num(9))>>)),
    Ret(List(<<Entry("COLLATERAL", Num(0)), Entry("COLLATERAL", Num(9))>>)),
    Ret(List(<<Str(<<"x">>), Entry("COLLATERAL", Num(7))>>)) }

RpcResult(text) == Http(200, [t |-> "obj", result |-> Str(text)])

\* 0x2887fa0 = 42500000 millionths = 42.50
BridgedAnswers == { Raised, RpcResult(<<"0","x","0">>), RpcResult(<<"0","x","2","8","8","7","f","a","0">>), RpcResult(<<"0","x">>) }
NativeAnswers == { Http(502, Null), RpcResult(<<"0","x","f","4","2","4","0">>) }
AllowanceAnswers == { Raised, RpcResult(<<"0","x","1","e","8","4","8","0">>) }
GasAnswers == { Http(200, [t |-> "obj", result |-> Null]), RpcResult(<<"0","x","5">>) }

RpcAnswers == [usdc_e : BridgedAnswers, usdc_native : NativeAnswers,
               allowance : AllowanceAnswers, matic : GasAnswers]

\* lines 86-103: the cash figure of the exchange, the calls made, the client
Primary(cash, n, b) == [cash |-> cash, net |-> n, built |-> b]

clob_cash(pk, funder, sig_type) ==
  LET derive(c) == <<Call("derive_api_creds", pk, c)>>
      client == <<Client(pk, sig_type, funder)>>
      asked(a) == derive(Answered) \o <<Call("get_balance_allowance", sig_type, a)>>
  IN  {Primary(0, derive(Raised), <<>>)}
      \cup {Primary(primary_cash(a), asked(a), client) : a \in {x \in CollateralAnswers : PrimaryOk(x)}}
      \cup {Primary(fallback_cash(b), asked(a) \o <<Call("get_balance", sig_type, b)>>, client) :
              a \in {x \in CollateralAnswers : ~PrimaryOk(x)}, b \in ListAnswers}

Snapshot(cash, usdc_native, matic, allowance, funder, sig_type) ==
  [cash |-> cash, usdc_native |-> usdc_native, matic |-> matic, allowance |-> allowance,
   funder |-> funder, signature_type |-> sig_type]

\* the snapshot that keeps the exchange's figure whatever the chain says
bridged_never(cash, cash_usdc_e) == cash

\* lines 105-107
bridged_if_zero(cash, cash_usdc_e) ==
  IF cash = 0 /\ cash_usdc_e > 0 THEN cash_usdc_e ELSE cash

\* the snapshot that stops when the exchange client could not be built
direct_reads_if_client(p, funder, r) ==
  IF p.built = <<>>
  THEN [usdc_e |-> Read(0, <<>>), usdc_native |-> Read(0, <<>>),
        allowance |-> Read(0, <<>>), matic |-> Read(0, <<>>)]
  ELSE [usdc_e |-> _erc20_balance(funder, "USDC_E", r.usdc_e),
        usdc_native |-> _erc20_balance(funder, "USDC_NATIVE", r.usdc_native),
        allowance |-> _erc20_allowance(funder, "CTF_EXCHANGE", "USDC_E", r.allowance),
        matic |-> _get_matic_balance(funder, r.matic)]

\* lines 105-111: the four direct reads, made whatever the exchange answered
direct_reads(p, funder, r) ==
  [usdc_e |-> _erc20_balance(funder, "USDC_E", r.usdc_e),
   usdc_native |-> _erc20_balance(funder, "USDC_NATIVE", r.usdc_native),
   allowance |-> _erc20_allowance(funder, "CTF_EXCHANGE", "USDC_E", r.allowance),
   matic |-> _get_matic_balance(funder, r.matic)]

Balances(body, n, b) == [body |-> body, net |-> n, built |-> b]

\* lines 105-120, after the exchange part p and with the chain answering r
snapshot_of(p, r, funder, sig_type) ==
  LET d == direct_reads(p, funder, r)
  IN  Balances(Snapshot(bridged_if_zero(p.cash, d.usdc_e.v), d.usdc_native.v, d.matic.v,
                        d.allowance.v, funder, sig_type),
               p.net \o d.usdc_e.net \o d.usdc_native.net \o d.allowance.net \o d.matic.net,
               p.built)

get_balances(pk, funder, sig_type) ==
  { snapshot_of(p, r, funder, sig_type) :
      p \in clob_cash(pk, funder, sig_type), r \in RpcAnswers }

\* the reply of /api/cash, the session it leaves, the calls and the client
Served(r, sess, n, b) == [res |-> r, session |-> sess, net |-> n, built |-> b]

api_cash(sess, store, activity) ==
  LET have == sess.t = "row" /\ sess.private_key # <<>> /\ sess.funder # <<>>
      reload == ~have /\ get_settings(store).t = "row"
      used == IF have THEN sess ELSE IF reload THEN store ELSE sess
      after == IF reload THEN store ELSE sess
  IN
  IF used.t # "row" \/ used.private_key = <<>>
  THEN {Served(Reply(400, [error |-> "missing credentials"]), after, <<>>, <<>>)}
  ELSE
  LET pk == CleanKey(used.private_key)
      sig0 == used.signature_type   \* int(sig_type or 0): the rows hold integers
      derived == IF ValidKey(pk) THEN DerivedAddress(pk) ELSE <<>>
      looked == used.funder = <<>> /\ ValidKey(pk)
      detected == IF looked THEN detect_proxy(derived, activity) ELSE <<>>
      funder == IF used.funder # <<>> THEN used.funder
                ELSE IF detected # <<>> THEN detected ELSE derived
      sig1 == IF looked /\ detected # <<>> THEN 2 ELSE sig0
      sig_type == IF funder # <<>> /\ Magic(funder) THEN 2 ELSE sig1
      n == IF looked THEN <<Call("activity", derived, activity)>> ELSE <<>>
  IN  {Served(Reply(200, o.body), after, n \o o.net, o.built) : o \in get_balances(pk, funder, sig_type)}

\* a funder that is no address, as anyone may type it into /api/set-creds
NoAddress == <<"m","y","-","w","a","l","l","e","t">>

BalanceSettings ==
  OrderSettings \cup { StoredBy(Str(KeyA), Str(NoAddress), Num(2), Raised) }

\* the activity feed is asked only when no funder is at hand
ActivityFor(sess, store) ==
  IF \/ sess.t = "row" /\ sess.private_key # <<>> /\ sess.funder # <<>>
     \/ store.t = "row" /\ store.funder # <<>>
     \/ sess.t # "row" /\ store.t # "row"
  THEN {Raised} ELSE ActivityAnswers

InitBalances ==
  /\ settings \in BalanceSettings
  /\ session \in {NoSettings, settings, StoredBy(Str(KeyA), Str(AddrP), Num(2), Raised)}
  /\ now = 5
  /\ calls \in GateStates
  /\ req = [op |-> "api_cash", data |-> Null]
  /\ pc = "pending"
  /\ res = NoReply
  /\ net = <<>>
  /\ built = <<>>
  /\ posted = <<>>
  /\ lock = 0
  /\ admitted = <<>>
  /\ trades = <<>>
  /\ tracked_traders = <<>>

ApiCash ==
  /\ pc = "pending"
  /\ req.op = "api_cash"
  /\ calls' = allow(calls, now).calls
  /\ IF allow(calls, now).ok
     THEN \E a \in ActivityFor(session, settings) :
            \E o \in api_cash(session, settings, a) :
              /\ res' = o.res
              /\ session' = o.session
              /\ net' = o.net
              /\ built' = o.built
              /\ posted' = posted
     ELSE Denied /\ session' = session
  /\ pc' = "done"
  /\ UNCHANGED <<lock, admitted, trades, tracked_traders>>
  /\ UNCHANGED <<settings, now, req>>

NextBalances == ApiCash

SpecBalances == InitBalances /\ [][NextBalances]_vars

\* Reading the trace of a served balance query
CashServed == pc = "done" /\ req.op = "api_cash" /\ res.code = 200

Asked(name) == {i \in DOMAIN net : net[i].call = name}
AnswerTo(name) == net[CHOOSE i \in Asked(name) : TRUE].answer

AskedToken(token) == {i \in Asked("balanceOf") : net[i].arg.to = token}
TokenFigure(token) ==
  IF AskedToken(token) = {} THEN 0
  ELSE rpc_figure(net[CHOOSE i \in AskedToken(token) : TRUE].answer)

\* the exchange's collateral-balance call was made and failed: it raised, or
\* what it returned could not be read as a balance
PrimaryFailed ==
  /\ Asked("get_balance_allowance") # {}
  /\ LET a == AnswerTo("get_balance_allowance")
     IN  \/ a.k = "raise"
         \/ /\ a.v.t = "obj"
            /\ ~Falsy(Field(a.v, "balance", Null))
            /\ ~Converts(Field(a.v, "balance", Null))

\* the generic list answered with entries, one of them tagged COLLATERAL
ListedCollateral ==
  /\ Asked("get_balance") # {}
  /\ LET b == AnswerTo("get_balance")
     IN  /\ b.k = "ret" /\ b.v.t = "list"
         /\ \A i \in DOMAIN b.v.v : b.v.v[i].t = "obj"
         /\ \E i \in DOMAIN b.v.v : b.v.v[i].asset_type = "COLLATERAL"

FirstListed ==
  LET l == AnswerTo("get_balance").v.v
  IN  l[SetMin({i \in DOMAIN l : l[i].asset_type = "COLLATERAL"})]

\* the collateral figure of the exchange path, before the bridged contract
\* is looked at
CollateralFigure ==
  IF Asked("get_balance_allowance") = {} THEN 0
  ELSE IF PrimaryFailed
       THEN IF ListedCollateral THEN NumberOf(FirstListed.balance) * Million ELSE 0
       ELSE LET a == AnswerTo("get_balance_allowance")
            IN  IF Falsy(a.v) \/ a.v.t # "obj" \/ Falsy(Field(a.v, "balance", Null)) THEN 0
                ELSE NumberOf(a.v.balance) * Million

Replaced(figure) ==
  IF figure = 0 /\ TokenFigure("USDC_E") > 0 THEN TokenFigure("USDC_E") ELSE figure

\* C16: in the balance snapshot, when the exchange's collateral-balance call
\* fails the collateral figure is that of the first entry of the client's
\* generic balance list tagged COLLATERAL; the generic list is asked for only
\* when the primary call has failed.
C16_FallbackOnFailure ==
  CashServed =>
    /\ Asked("get_balance") # {} => PrimaryFailed
    /\ PrimaryFailed => Asked("get_balance") # {}
    /\ (PrimaryFailed /\ ListedCollateral) =>
          res.body.cash = Replaced(NumberOf(FirstListed.balance) * Million)

C16_Witness ==
  /\ CashServed
  /\ PrimaryFailed /\ ListedCollateral
  /\ Len(AnswerTo("get_balance").v.v) = 3
  /\ res.body.cash = 7 * Million

\* C17: the snapshot's collateral cash is the bridged-contract balance
\* exactly when the collateral figure is zero and the bridged balance is
\* positive, and the collateral figure otherwise; when the collateral
\* endpoint throws and the bridged balance is 42.50, the cash is 42.50.
C17_BridgedOnThrow ==
  CashServed =>
    /\ res.body.cash = Replaced(CollateralFigure)
    /\ (/\ Asked("get_balance_allowance") # {}
        /\ AnswerTo("get_balance_allowance").k = "raise"
        /\ TokenFigure("USDC_E") = 42500000)
       => res.body.cash = 42500000

\* C17, amended: as above, the case of the throwing endpoint being the one
\* where the generic balance list gives no collateral figure either.
C17_BridgedIfZero ==
  CashServed =>
    /\ res.body.cash = Replaced(CollateralFigure)
    /\ (/\ Asked("get_balance_allowance") # {}
        /\ AnswerTo("get_balance_allowance").k = "raise"
        /\ CollateralFigure = 0
        /\ TokenFigure("USDC_E") = 42500000)
       => res.body.cash = 42500000

C17_Witness ==
  /\ CashServed
  /\ Asked("get_balance_allowance") # {}
  /\ AnswerTo("get_balance_allowance").k = "raise"
  /\ AnswerTo("get_balance").k = "raise"
  /\ TokenFigure("USDC_E") = 42500000
  /\ res.body.cash = 42500000

\* the balance query got as far as the snapshot
Snapshotted == pc = "done" /\ req.op = "api_cash" /\ res # NoReply /\ res.code # 400

ReadFigure(name) == IF Asked(name) = {} THEN 0 ELSE rpc_figure(AnswerTo(name))

\* the funder has the shape of an address: 0x and 40 more characters
AddressShaped(funder) ==
  StartsWith(Lower(Strip(funder)), <<"0","x">>) /\ Len(Strip(funder)) = 42

\* each sub-figure of the snapshot is what its own call gave, 0 when it failed
FiguresKept ==
  /\ res.code = 200
  /\ res.body.cash = Replaced(CollateralFigure)
  /\ res.body.usdc_native = TokenFigure("USDC_NATIVE")
  /\ res.body.allowance = ReadFigure("allowance")
  /\ res.body.matic = ReadFigure("eth_getBalance")

\* C18: the snapshot is always returned, whatever fails: each failed
\* sub-figure is 0 and the others keep their values; the native-stablecoin
\* balance, the allowance and the gas balance are each queried on every
\* snapshot, however the exchange path ended.
C18_AlwaysQueried ==
  Snapshotted =>
    /\ FiguresKept
    /\ Cardinality(AskedToken("USDC_NATIVE")) = 1
    /\ Cardinality(Asked("allowance")) = 1
    /\ Cardinality(Asked("eth_getBalance")) = 1

\* C18, amended: as above, but the native-stablecoin balance is queried when
\* the funder has the shape of an address (else it is 0 without a query), and
\* the allowance when there is a funder.
C18_DegradedSnapshot ==
  Snapshotted =>
    /\ FiguresKept
    /\ Cardinality(AskedToken("USDC_NATIVE")) = (IF AddressShaped(res.body.funder) THEN 1 ELSE 0)
    /\ Cardinality(Asked("allowance")) = (IF res.body.funder # <<>> THEN 1 ELSE 0)
    /\ Cardinality(Asked("eth_getBalance")) = 1

C18_Witness ==
  /\ Snapshotted
  /\ built = <<>>
  /\ Asked("get_balance_allowance") = {}
  /\ res.body.cash = 0
  /\ res.body.usdc_native > 0
  /\ res.body.allowance > 0
  /\ res.body.matic > 0

-----------------------------------------------------------------------------
(* RateLimiter.allow, statement by statement, under concurrent callers *)

NumThreads == 2
\* the clock runs over one window and its end
MaxTime == window * Ticks

Threads == 1..NumThreads

\* the lock taken whether or not another caller holds it
lock_ignored(l) == TRUE

\* `with self.lock:` is entered when no caller holds the lock
lock_free(l) == l = 0

InitGate ==
  /\ settings = NoSettings
  /\ session = NoSettings
  /\ calls = <<>>
  /\ now = 0
  /\ req = [t \in Threads |-> 0]
  /\ pc = [t \in Threads |-> "out"]
  /\ res = NoReply
  /\ net = <<>>
  /\ built = <<>>
  /\ posted = <<>>
  /\ lock = 0
  /\ admitted = <<>>
  /\ trades = <<>>
  /\ tracked_traders = <<>>

\* time.time() moves on
Tick ==
  /\ now < MaxTime
  /\ now' = now + 1
  /\ UNCHANGED <<settings, session, calls, req, pc, res, net, built, posted, lock, admitted, trades, tracked_traders>>

\* with self.lock:
Acquire(t) ==
  /\ pc[t] = "out"
  /\ lock_free(lock)
  /\ lock' = t
  /\ pc' = [pc EXCEPT ![t] = "locked"]
  /\ UNCHANGED <<settings, session, calls, now, req, res, net, built, posted, admitted, trades, tracked_traders>>

\* now = time.time(); self.calls = [t for t in self.calls if t > now - self.window]
Prune(t) ==
  /\ pc[t] = "locked"
  /\ req' = [req EXCEPT ![t] = now]
  /\ calls' = recent(calls, now)
  /\ pc' = [pc EXCEPT ![t] = "pruned"]
  /\ UNCHANGED <<settings, session, now, res, net, built, posted, lock, admitted, trades, tracked_traders>>

\* if len(self.calls) >= self.limit: return False
Check(t) ==
  /\ pc[t] = "pruned"
  /\ pc' = [pc EXCEPT ![t] = IF Len(calls) >= limit THEN "denied" ELSE "room"]
  /\ UNCHANGED <<settings, session, calls, now, req, res, net, built, posted, lock, admitted, trades, tracked_traders>>

\* self.calls.append(now); return True
Admit(t) ==
  /\ pc[t] = "room"
  /\ calls' = Append(calls, req[t])
  /\ admitted' = Append(admitted, req[t])
  /\ pc' = [pc EXCEPT ![t] = "allowed"]
  /\ UNCHANGED <<settings, session, now, req, res, net, built, posted, lock, trades, tracked_traders>>

\* leaving the with block releases the lock
Release(t) ==
  /\ pc[t] \in {"denied", "allowed"}
  /\ lock' = 0
  /\ pc' = [pc EXCEPT ![t] = "out"]
  /\ UNCHANGED <<settings, session, calls, now, req, res, net, built, posted, admitted, trades, tracked_traders>>

NextGate ==
  \/ Tick
  \/ \E t \in Threads : Acquire(t)
  \/ \E t \in Threads : Prune(t)
  \/ \E t \in Threads : Check(t)
  \/ \E t \in Threads : Admit(t)
  \/ \E t \in Threads : Release(t)

SpecGate == InitGate /\ [][NextGate]_vars

\* the admissions stamped within the window that ends at time t
AdmittedIn(t) == {i \in DOMAIN admitted : admitted[i] > t - window * Ticks /\ admitted[i] <= t}

\* C19: under any interleaving of concurrent callers of the shared gate, at
\* most `limit` calls are admitted within any rolling window of the configured
\* length, and the list of recorded admissions never holds more than `limit`.
C19_AtMostLimit ==
  /\ Len(calls) <= limit
  /\ \A t \in 0..MaxTime : Cardinality(AdmittedIn(t)) <= limit

C19_Witness ==
  /\ Len(calls) = limit
  /\ Len(admitted) > limit
  /\ \E t \in Threads : pc[t] = "denied"

-----------------------------------------------------------------------------
(* The three gated operations together *)

InitGated == InitOrder \/ InitBalances

NextGated == PlaceOrder \/ RepeatOrder \/ ApiCash

SpecGated == InitGated /\ [][NextGated]_vars

\* the gate holds `limit` admissions of the current window
GateFull ==
  Cardinality({i \in DOMAIN calls : calls[i] > now - window * Ticks}) >= limit

\* C20: when the gate denies a call to place_order, repeat_order or the
\* balance query, the caller is turned away in that very step: the body does
\* not run (no settings read into the session, no network call, no client, no
\* order), nothing is queued or recorded for later, and the call is over.
C20_DeniedNeverRuns ==
  [][ (pc = "pending" /\ GateFull) =>
        /\ pc' = "done"
        /\ res' = NoReply
        /\ net' = <<>> /\ built' = <<>> /\ posted' = <<>>
        /\ session' = session /\ settings' = settings
        /\ calls' = calls ]_vars

C20_Witness ==
  /\ pc = "done"
  /\ req.op = "api_cash"
  /\ GateFull
  /\ res = NoReply
  /\ net = <<>>
  /\ session = NoSettings /\ settings # NoSettings

-----------------------------------------------------------------------------
(* The activity and trades feeds: api_src/fetcher.py and DataApiClient *)

\* a body that is not JSON: r.json() raises on it
NotJson == [t |-> "bad"]

FeedItem(type, hash) == [t |-> "obj", type |-> type, transactionHash |-> hash]

\* one GET of the data API: the path, the name of the address parameter
Query(path, param, address, answer) ==
  Call("data-api", [path |-> path, param |-> param, address |-> address], answer)

Fetched(result, n) == [result |-> result, net |-> n]

\* the tail of the fetcher functions: what the last response is turned into
fetcher_result(r) ==
  IF r.status # 200 THEN Ret(List(<<>>))
  ELSE IF r.body.t = "bad" THEN Raise("JSONDecodeError")
  ELSE IF r.body.t # "list" THEN Ret(List(<<>>))
  ELSE Ret(r.body)

\* the fallback test of the fetcher functions, r.json() included
fetcher_retries(r) ==
  r.status # 200 \/ (r.body.t # "bad" /\ (r.body.t # "list" \/ Len(r.body.v) = 0))

\* fetch_trades_for_user / fetch_activity_for_user
fetch_for_user(path, address, first, second) ==
  LET q1 == Query(path, "user", address, first)
      q2 == Query(path, "proxyWallet", address, second)
  IN  IF first.kind = "raise" THEN Fetched(Raise("RequestException"), <<q1>>)
      ELSE IF first.status = 200 /\ first.body.t = "bad"
      THEN Fetched(Raise("JSONDecodeError"), <<q1>>)
      ELSE IF ~fetcher_retries(first) THEN Fetched(fetcher_result(first), <<q1>>)
      ELSE IF second.kind = "raise" THEN Fetched(Raise("RequestException"), <<q1, q2>>)
      ELSE Fetched(fetcher_result(second), <<q1, q2>>)

\* the test DataApiClient makes of a response before returning its list
client_accepts(r) == r.status = 200 /\ r.body.t = "list"

\* DataApiClient.get_trades / get_activity: every exception ends in []
DataApiClient_get(path, address, first, second) ==
  LET q1 == Query(path, "user", address, first)
      q2 == Query(path, "proxyWallet", address, second)
      raises(r) == r.kind = "raise" \/ (r.status = 200 /\ r.body.t = "bad")
  IN  IF raises(first) THEN Fetched(Ret(List(<<>>)), <<q1>>)
      ELSE IF client_accepts(first) THEN Fetched(Ret(first.body), <<q1>>)
      ELSE IF raises(second) THEN Fetched(Ret(List(<<>>)), <<q1, q2>>)
      ELSE IF client_accepts(second) THEN Fetched(Ret(second.body), <<q1, q2>>)
      ELSE Fetched(Ret(List(<<>>)), <<q1, q2>>)

FeedOps ==
  { [op |-> "fetch_trades_for_user", path |-> "trades"],
    [op |-> "fetch_activity_for_user", path |-> "activity"],
    [op |-> "get_trades", path |-> "trades"],
    [op |-> "get_activity", path |-> "activity"] }

FeedAnswers ==
  { Http(200, List(<<FeedItem("TRADE", "0xt1")>>)),
    Http(200, List(<<FeedItem("TRADE", "0xt1"), FeedItem("REDEEM", "0xt2")>>)),
    Http(200, List(<<>>)),
    Http(200, [t |-> "obj", error |-> "bad request"]),
    Http(200, NotJson),
    Http(429, NotJson),
    Http(500, [t |-> "obj", error |-> "internal"]),
    Raised }

InitFetch ==
  /\ settings = NoSettings
  /\ session = NoSettings
  /\ now = 5
  /\ calls = <<>>
  /\ \E o \in FeedOps, a1 \in FeedAnswers, a2 \in FeedAnswers :
       req = [op |-> o.op, path |-> o.path, address |-> AddrA, first |-> a1, second |-> a2]
  /\ pc = "pending"
  /\ res = NoReply
  /\ net = <<>>
  /\ built = <<>>
  /\ posted = <<>>
  /\ lock = 0
  /\ admitted = <<>>
  /\ trades = <<>>
  /\ tracked_traders = <<>>

FetcherFetch ==
  /\ pc = "pending"
  /\ req.op \in {"fetch_trades_for_user", "fetch_activity_for_user"}
  /\ LET o == fetch_for_user(req.path, req.address, req.first, req.second)
     IN  res' = o.result /\ net' = o.net
  /\ pc' = "done"
  /\ UNCHANGED <<settings, session, calls, now, req, built, posted, lock, admitted, trades, tracked_traders>>

ClientFetch ==
  /\ pc = "pending"
  /\ req.op \in {"get_trades", "get_activity"}
  /\ LET o == DataApiClient_get(req.path, req.address, req.first, req.second)
     IN  res' = o.result /\ net' = o.net
  /\ pc' = "done"
  /\ UNCHANGED <<settings, session, calls, now, req, built, posted, lock, admitted, trades, tracked_traders>>

NextFetch == FetcherFetch \/ ClientFetch

SpecFetch == InitFetch /\ [][NextFetch]_vars

\* the first response calls for the second query: it is not HTTP 200, or its
\* body is not a list, or it is an empty list
CallsForSecond(r) ==
  r.status # 200 \/ r.body.t # "list" \/ Len(r.body.v) = 0

\* C21: every fetch of the activity and trades feeds that got a first
\* response queried by `user` first, issued at most two requests, never put a
\* `proxyWallet` query first, and issued the `proxyWallet` query if and only
\* if the first response was not HTTP 200, not a list, or an empty list.
C21_TwoAttemptFallback ==
  (pc = "done" /\ req.first.kind = "http") =>
     /\ Len(net) \in {1, 2}
     /\ net[1].arg.param = "user"
     /\ net[1].arg.path = req.path
     /\ Len(net) = 2 <=> CallsForSecond(req.first)
     /\ Len(net) = 2 => net[2].arg.param = "proxyWallet" /\ net[2].arg.path = req.path

\* the same, of the two functions of api_src/fetcher.py on JSON bodies
C21_FetcherFallback ==
  (/\ pc = "done"
   /\ req.op \in {"fetch_trades_for_user", "fetch_activity_for_user"}
   /\ req.first.kind = "http"
   /\ req.first.body.t # "bad" \/ req.first.status # 200) =>
     /\ Len(net) \in {1, 2}
     /\ net[1].arg.param = "user"
     /\ Len(net) = 2 <=> CallsForSecond(req.first)
     /\ Len(net) = 2 => net[2].arg.param = "proxyWallet"

-----------------------------------------------------------------------------
(* A settings update followed by an order or balance request.  Each client *)
(* of the application has its own Flask session; the settings store is one *)

Clients == {"a", "b"}

\* the credentials submitted by the update
FreshData ==
  { [private_key |-> Str(KeyM), funder |-> Null, signature_type |-> Null],
    [private_key |-> Str(<<"0","x">> \o KeyA), funder |-> Str(AddrP), signature_type |-> Num(2)],
    [private_key |-> Str(KeyA), funder |-> Str(<<" ">> \o Lower(AddrA)), signature_type |-> Num(0)] }

\* the order the second request asks for
FreshOrder ==
  [slug |-> Str(LiteralToken), outcome |-> Null, outcome_index |-> Null, side |-> Str(<<"b","u","y">>),
   order_type |-> Null, price |-> Null, size |-> Null,
   usdc_amount |-> Num(1000), usdc_size |-> Num(1000)]

\* client a has used the application before (its session holds what the store
\* held then), client b has not; a request records in `after` the reply that
\* the settings update before it got
InitFresh ==
  /\ settings \in PriorSettings
  /\ session \in {[c \in Clients |-> NoSettings],
                  [c \in Clients |-> IF c = "a" THEN settings ELSE NoSettings]}
  /\ now = 5
  /\ calls = <<>>
  /\ req = [op |-> "none", client |-> "a", data |-> Null, after |-> NoReply]
  /\ pc = "configured"
  /\ res = NoReply
  /\ net = <<>>
  /\ built = <<>>
  /\ posted = <<>>
  /\ lock = 0
  /\ admitted = <<>>
  /\ trades = <<>>
  /\ tracked_traders = <<>>

UpdateSettings ==
  /\ pc = "configured"
  /\ \E c \in Clients, data \in FreshData, a \in ActivityAnswers, sv \in SaveAnswers :
       LET o == set_creds(data, session[c], settings, [activity |-> a, save |-> sv])
       IN  /\ req' = [op |-> "set_creds", client |-> c, data |-> data, after |-> NoReply]
           /\ res' = o.res
           /\ session' = [session EXCEPT ![c] = o.session]
           /\ settings' = o.settings
           /\ net' = o.net
  /\ pc' = "updated"
  /\ UNCHANGED <<calls, now, built, posted, lock, admitted, trades, tracked_traders>>

CashAfter ==
  /\ pc = "updated"
  /\ calls' = allow(calls, now).calls
  /\ \E c \in Clients :
       /\ req' = [op |-> "api_cash", client |-> c, data |-> Null, after |-> res]
       /\ IF allow(calls, now).ok
          THEN \E a \in ActivityFor(session[c], settings) :
                 \E o \in api_cash(session[c], settings, a) :
                   /\ res' = o.res
                   /\ session' = [session EXCEPT ![c] = o.session]
                   /\ net' = o.net
                   /\ built' = o.built
                   /\ posted' = <<>>
          ELSE res' = NoReply /\ net' = <<>> /\ built' = <<>> /\ posted' = <<>> /\ session' = session
  /\ pc' = "done"
  /\ UNCHANGED <<settings, now, lock, admitted, trades, tracked_traders>>

OrderAfter ==
  /\ pc = "updated"
  /\ calls' = allow(calls, now).calls
  /\ \E c \in Clients, op \in {"place_order", "repeat_order"} :
       /\ req' = [op |-> op, client |-> c, data |-> FreshOrder, after |-> res]
       /\ IF allow(calls, now).ok
          THEN \E o \in (IF op = "place_order"
                         THEN place_order(FreshOrder, settings, MarketAnswers)
                         ELSE repeat_order(FreshOrder, settings, MarketAnswers)) : Handled(o)
          ELSE res' = NoReply /\ net' = <<>> /\ built' = <<>> /\ posted' = <<>>
  /\ pc' = "done"
  /\ UNCHANGED <<settings, session, now, lock, admitted, trades, tracked_traders>>

NextFresh == UpdateSettings \/ CashAfter \/ OrderAfter

SpecFresh == InitFresh /\ [][NextFresh]_vars

\* the exchange client carries what the store holds (the key cleaned of its
\* prefix, the funder up to letter case, type 2 forced for a custodial funder)
FromStore(client, store) ==
  /\ store.t = "row"
  /\ client.key = CleanKey(store.private_key)
  /\ Lower(client.funder) = Lower(store.funder)
  /\ client.signature_type = forced_sig_type(store)

\* C22: an order or balance operation that follows a settings update runs
\* with the private key, funder and signature type held by the settings store
\* when it starts, whichever client session sends it: every exchange client it
\* builds, and the wallet a balance snapshot reports, are those of the store.
C22_StoreInForce ==
  (pc = "done" /\ req.op \in {"api_cash", "place_order", "repeat_order"} /\ req.after.code = 200) =>
     /\ \A i \in DOMAIN built : FromStore(built[i], settings)
     /\ (req.op = "api_cash" /\ res.code = 200) =>
          /\ settings.t = "row"
          /\ Lower(res.body.funder) = Lower(settings.funder)

\* the same, of the two order handlers alone
C22_OrdersFromStore ==
  (pc = "done" /\ req.op \in {"place_order", "repeat_order"}) =>
     \A i \in DOMAIN built : FromStore(built[i], settings)

-----------------------------------------------------------------------------
(* Validation of an order request (specification SpecOrder) *)

InvalidSide == Upper(Strip(OrEmpty(req.data.side))) \notin {<<"B","U","Y">>, <<"S","E","L","L">>}

\* the amount of a market order: the notional for BUY, the size for SELL
WantedAmount == IF WantedSide = "BUY" THEN Notional ELSE req.data.size

\* a market order whose amount is missing or not positive
BadAmount ==
  /\ req.data.price.t = "null"
  /\ \/ WantedAmount.t = "null"
     \/ Converts(WantedAmount) /\ NumberOf(WantedAmount) <= 0

DerivedCreds == \E i \in DOMAIN net : net[i].call = "derive_api_creds"

\* C23: an order request that fails validation (invalid side, missing or
\* non-positive amount) is answered with a failure before any network side
\* effect: no API-credential derivation call was issued for it, no exchange
\* client was built and no order was posted.
C23_ValidatedBeforeNetwork ==
  (pc = "done" /\ OrderOp /\ res # NoReply /\ (InvalidSide \/ BadAmount)) =>
     /\ res.code # 200
     /\ ~DerivedCreds
     /\ built = <<>>
     /\ posted = <<>>

\* the same, of the side check alone
C23_SideBeforeNetwork ==
  (pc = "done" /\ OrderOp /\ res # NoReply /\ InvalidSide) =>
     /\ res.code = 400
     /\ net = <<>> /\ built = <<>> /\ posted = <<>>

-----------------------------------------------------------------------------
(* Market orders by size (specification SpecOrder) *)

\* float(mid) * sz of two figures counted in hundredths, in hundredths
Times(mid, sz) == (mid * sz) \div 100

\* the request gives a size and neither a price nor a notional, and reaches
\* the executor (its token is resolved and the exchange client is built)
SizeOnly ==
  /\ pc = "done" /\ OrderOp
  /\ built # <<>>
  /\ req.data.price.t = "null"
  /\ Notional.t = "null"
  /\ req.data.size.t = "num"

Midpoints == {i \in DOMAIN net : net[i].call = "get_midpoint"}

\* C24: an order request with a size but neither price nor notional fetches
\* the midpoint for BUY and submits a market order of size x midpoint, submits
\* a market order of the size itself for SELL, and fails, posting nothing,
\* when the amount so computed is <= 0.
C24_MarketBySize ==
  SizeOnly =>
    /\ WantedSide = "BUY" =>
         /\ req.data.size.v > 0 => Midpoints # {}
         /\ \A i \in DOMAIN posted, m \in Midpoints :
              /\ posted[i].order.kind = "market"
              /\ posted[i].order.amount = Times(net[m].answer.v.v, req.data.size.v)
         /\ req.data.size.v > 0 =>
              (posted # <<>> \/ res.body.error \in {"order could not be signed", "midpoint unavailable"})
    /\ WantedSide = "SELL" =>
         /\ \A i \in DOMAIN posted :
              /\ posted[i].order.kind = "market"
              /\ posted[i].order.amount = req.data.size.v
         /\ req.data.size.v > 0 =>
              (posted # <<>> \/ res.body.error = "order could not be signed")
    /\ req.data.size.v <= 0 => (res.code # 200 /\ posted = <<>>)

\* the same, of SELL requests alone
C24_SellBySize ==
  (SizeOnly /\ WantedSide = "SELL") =>
    /\ \A i \in DOMAIN posted :
         /\ posted[i].order.kind = "market"
         /\ posted[i].order.amount = req.data.size.v
    /\ req.data.size.v > 0 =>
         (posted # <<>> \/ res.body.error = "order could not be signed")
    /\ req.data.size.v <= 0 => (res.code # 200 /\ posted = <<>>)

-----------------------------------------------------------------------------
(* static/patch_app_repeat_final.py: the repeat_order handler it installs *)

\* _resolve_token_id and get_clob_client are called by the patched handler and
\* defined nowhere in the sources: they are taken to be what
\* MarketService.resolve_token_id and TradeService.get_client are now
legacy_resolve_token_id(answer, outcome_index, outcome) ==
  resolve_token_id(answer, outcome_index, outcome)

\* client.get_midpoint(token_id): a price in hundredths, the JSON object the
\* venue wraps it in, or an exception
MidAnswers ==
  { Ret(Num(50)), Ret(Num(0)), Ret([t |-> "obj", mid |-> Str(<<"0",".","5">>)]),
    Raise("PolyApiException[status_code=404]") }

Final(r, sess, n, b, p) == [res |-> r, session |-> sess, net |-> n, built |-> b, posted |-> p]

\* lines 92-147: the three branches of the patched handler, the client built
final_branches(data, token_id, side, n, sess, b) ==
  LET sgn_side == IF Lower(side) = <<"b","u","y">> THEN "BUY" ELSE "SELL"
      usdc_amount == data.usdc_size
      fail(msg, m) == {Final(Reply(400, Failure(msg)), sess, m, b, <<>>)}
      posts(order, m) ==
        {Final(IF d.result.k = "raise" THEN Reply(400, Failure(d.result.e))
               ELSE Reply(200, Success(d.result.v)), sess, m, b, d.posted) : d \in submit(order)}
      by_size(mid) ==
        LET m == n \o <<Call("get_midpoint", token_id, mid)>>
            sz == IF Falsy(data.size) \/ ~Converts(data.size) THEN 0 ELSE NumberOf(data.size)
        IN  IF mid.k = "raise" THEN fail(mid.e, m)
            ELSE IF sgn_side = "BUY" /\ mid.v.t # "num"
            THEN fail("float() argument must be a string or a real number", m)
            ELSE LET amt == IF sgn_side = "SELL" THEN sz ELSE Times(mid.v.v, sz)
                 IN  IF amt <= 0 THEN fail("missing size/price/usdc amount", m)
                     ELSE posts(MarketOrderArgs(token_id, amt, sgn_side), m)
  IN
  IF usdc_amount.t # "null"
  THEN IF ~Converts(usdc_amount) \/ NumberOf(usdc_amount) <= 0
       THEN fail("invalid usdc amount", n)
       ELSE posts(MarketOrderArgs(token_id, NumberOf(usdc_amount), sgn_side), n)
  ELSE IF data.price.t # "null" /\ data.size.t # "null"
  THEN IF ~Converts(data.price) \/ ~Converts(data.size)
       THEN fail("could not convert string to float", n)
       ELSE posts(OrderArgs(NumberOf(data.price), NumberOf(data.size), sgn_side, token_id), n)
  ELSE UNION {by_size(mid) : mid \in MidAnswers}

repeat_order_final(data, sess, store, markets) ==
  LET slug == Strip(OrEmpty(data.slug))
      side == Strip(OrEmpty(data.side))
      loaded == get_settings(store).t = "row"
      used == IF loaded THEN store ELSE sess
      after == IF loaded THEN store ELSE sess
      stop(r, n) == {Final(r, after, n, <<>>, <<>>)}
  IN
  IF slug = <<>> \/ Lower(side) \notin {<<"b","u","y">>, <<"s","e","l","l">>}
  THEN {Final(Reply(400, Failure("invalid input")), sess, <<>>, <<>>, <<>>)}
  ELSE IF used.t # "row" \/ used.private_key = <<>>
  THEN stop(Reply(400, [error |-> "missing credentials"]), <<>>)
  ELSE
  LET pk == CleanKey(used.private_key)
      funder == clean_funder(used)
      sig_type == forced_sig_type(used)
      resolved(a) ==
        LET t == legacy_resolve_token_id(a, data.outcome_index, data.outcome)
            n == <<Call("markets", slug, a)>>
            derive(c) == n \o <<Call("derive_api_creds", pk, c)>>
        IN  IF t.k = "raise" THEN stop(Reply(400, Failure(t.e)), n)
            ELSE IF Falsy(t.v) THEN stop(Reply(400, Failure("token not found")), n)
            ELSE IF sig_type = 2 /\ funder = <<>>
            THEN stop(Reply(400, Failure("Proxy Address required for Signature Type 2")), n)
            ELSE stop(Reply(400, Failure("could not derive api creds")), derive(Raised))
                 \cup final_branches(data, t.v, side, derive(Answered), after,
                                     <<Client(pk, sig_type, funder)>>)
  IN  UNION {resolved(a) : a \in markets}

\* a settings row that names no funder
Unfunded == Row(KeyA, <<>>, 2)

FinalData ==
  [slug : {Null, Str(Slug)},
   outcome : {Null},
   outcome_index : {Num(1)},
   side : Sides,
   price : {Null, Num(35)},
   size : Sizes,
   usdc_size : {Null, Num(1000), Num(0), Num(0 - 5), Str(<<"x">>)}]

FinalMarkets ==
  { Http(404, Null),
    Http(200, List(<<Market(List(<<Str(TokenYes), Str(TokenNo)>>), List(<<Str(Yes), Str(No)>>))>>)) }

InitFinal ==
  /\ settings \in OrderSettings \cup {Unfunded}
  /\ session \in {NoSettings, Row(KeyA, AddrP, 2)}
  /\ now = 5
  /\ calls = <<>>
  /\ req \in [op : {"repeat_order"}, data : FinalData]
  /\ pc = "pending"
  /\ res = NoReply
  /\ net = <<>>
  /\ built = <<>>
  /\ posted = <<>>
  /\ lock = 0
  /\ admitted = <<>>
  /\ trades = <<>>
  /\ tracked_traders = <<>>

RepeatOrderFinal ==
  /\ pc = "pending"
  /\ \E o \in repeat_order_final(req.data, session, settings, FinalMarkets) :
       /\ res' = o.res
       /\ session' = o.session
       /\ net' = o.net
       /\ built' = o.built
       /\ posted' = o.posted
  /\ pc' = "done"
  /\ UNCHANGED <<settings, calls, now, req, lock, admitted, trades, tracked_traders>>

NextFinal == RepeatOrderFinal

SpecFinal == InitFinal /\ [][NextFinal]_vars

\* the market order by size of the patched handler: the midpoint is asked
\* once, a BUY carries size x midpoint and a SELL the size, and an amount
\* <= 0 ends in a failure with nothing posted
FinalBySize ==
  SizeOnly =>
    /\ Cardinality(Midpoints) = 1
    /\ \A i \in DOMAIN posted, m \in Midpoints :
         /\ posted[i].order.kind = "market"
         /\ posted[i].type = "FOK"
         /\ posted[i].order.amount =
              IF WantedSide = "BUY" THEN Times(net[m].answer.v.v, req.data.size.v)
              ELSE req.data.size.v
         /\ posted[i].order.amount > 0
    /\ req.data.size.v <= 0 => (res.code = 400 /\ posted = <<>>)

-----------------------------------------------------------------------------
(* Where the private key goes: app.py get_user_settings, and the session *)
(* writes of set_creds and api_cash.  The Flask session is the cookie the  *)
(* client keeps between requests.                                          *)

\* pk[:4] + "..." + pk[-4:] if pk and len(pk) > 8, else ""
masked_pk(pk) ==
  IF Len(pk) > 8
  THEN SubSeq(pk, 1, 4) \o <<".",".",".">> \o SubSeq(pk, Len(pk) - 3, Len(pk))
  ELSE <<>>

get_user_settings(store) ==
  IF get_settings(store).t = "none" THEN Reply(200, [configured |-> FALSE])
  ELSE Reply(200, [configured |-> TRUE,
                   funder |-> store.funder,
                   signature_type |-> store.signature_type,
                   masked_pk |-> masked_pk(store.private_key)])

\* the rows the settings table may hold when it is read: those set_creds
\* stores, and rows with a short key as another writer of the table leaves them
ReadSettings ==
  OrderSettings \cup { Row(<<"1","2","3","4","5","6","7","8">>, AddrA, 0),
                       Row(<<"1","2","3","4","5","6","7","8","9">>, AddrA, 0),
                       Row(<<>>, AddrA, 0) }

InitRead ==
  /\ settings \in ReadSettings
  /\ session \in {NoSettings, Row(KeyA, AddrP, 2)}
  /\ now = 5
  /\ calls = <<>>
  /\ req = [op |-> "get_user_settings", data |-> Null]
  /\ pc = "pending"
  /\ res = NoReply
  /\ net = <<>>
  /\ built = <<>>
  /\ posted = <<>>
  /\ lock = 0
  /\ admitted = <<>>
  /\ trades = <<>>
  /\ tracked_traders = <<>>

GetUserSettings ==
  /\ pc = "pending"
  /\ req.op = "get_user_settings"
  /\ res' = get_user_settings(settings)
  /\ pc' = "done"
  /\ UNCHANGED <<settings, session, calls, now, req, net, built, posted, lock, admitted, trades, tracked_traders>>

InitKeys == InitCreds \/ InitBalances \/ InitOrder \/ InitRead

NextKeys == SetCreds \/ ApiCash \/ PlaceOrder \/ RepeatOrder \/ GetUserSettings

SpecKeys == InitKeys /\ [][NextKeys]_vars

\* a store holds a private key in the clear
HoldsKey(store) == store.t = "row" /\ store.private_key # <<>>

\* what the settings read may show of the key
OnlyMasked(shown, pk) ==
  IF Len(pk) <= 8 THEN shown = <<>>
  ELSE /\ shown # pk
       /\ SubSeq(shown, 1, 4) = SubSeq(pk, 1, 4)
       /\ SubSeq(shown, Len(shown) - 3, Len(shown)) = SubSeq(pk, Len(pk) - 3, Len(pk))
       /\ \A i \in 5..(Len(shown) - 4) : shown[i] \notin HexChars

\* C25: no operation (set_creds, the balance query, order placement, the
\* settings read) writes the private key in the clear to a store other than
\* the settings store, the client's session included, and the settings read
\* returns the key in masked form only: its first 4 and last 4 characters,
\* or the empty text for a key of at most 8 characters.
C25_KeyStaysInSettings ==
  [][ /\ session' # session => ~HoldsKey(session')
      /\ (req.op = "get_user_settings" /\ pc' = "done" /\ settings.t = "row") =>
           /\ DOMAIN res'.body = {"configured", "funder", "signature_type", "masked_pk"}
           /\ OnlyMasked(res'.body.masked_pk, settings.private_key) ]_vars

\* the same, of the settings read alone
C25_MaskedRead ==
  (req.op = "get_user_settings" /\ pc = "done" /\ settings.t = "row") =>
     /\ DOMAIN res.body = {"configured", "funder", "signature_type", "masked_pk"}
     /\ OnlyMasked(res.body.masked_pk, settings.private_key)

-----------------------------------------------------------------------------
(* WalletService.get_balances called twice against the same outside: the   *)
(* exchange and the chain are a record of what they answer to each query   *)

Worlds ==
  [derive : {Raised, Answered}, primary : CollateralAnswers, list : ListAnswers,
   chain : RpcAnswers]

\* what the exchange answers to a call of its client
WorldAnswer(w, c) ==
  CASE c.call = "derive_api_creds" -> w.derive
    [] c.call = "get_balance_allowance" -> w.primary
    [] c.call = "get_balance" -> w.list

\* the exchange part of a snapshot in which every call got the answer of w
Against(p, w) == \A i \in DOMAIN p.net : p.net[i].answer = WorldAnswer(w, p.net[i])

\* a snapshot whose primary query uses up the exchange's answer
world_after_spent(w) ==
  [w EXCEPT !.primary = Raise("PolyApiException[status_code=429]")]

\* the outside after a snapshot: get_balances only reads (get_balance_allowance,
\* get_balance, eth_call, eth_getBalance), so it is the outside before it
world_after(w) == w

WalletModes ==
  { [pk |-> KeyA, funder |-> AddrP, sig_type |-> 2],
    [pk |-> KeyA, funder |-> AddrA, sig_type |-> 0],
    [pk |-> KeyM, funder |-> NoAddress, sig_type |-> 2] }

InitTwice ==
  /\ settings = NoSettings
  /\ session = NoSettings
  /\ now = 5
  /\ calls = <<>>
  /\ \E m \in WalletModes, w \in Worlds :
       req = [op |-> "get_balances", mode |-> m, world |-> w]
  /\ pc = "pending"
  /\ res = <<>>
  /\ net = <<>>
  /\ built = <<>>
  /\ posted = <<>>
  /\ lock = 0
  /\ admitted = <<>>
  /\ trades = <<>>
  /\ tracked_traders = <<>>

GetBalances ==
  /\ pc \in {"pending", "once"}
  /\ \E p \in clob_cash(req.mode.pk, req.mode.funder, req.mode.sig_type) :
       /\ Against(p, req.world)
       /\ LET o == snapshot_of(p, req.world.chain, req.mode.funder, req.mode.sig_type)
          IN  /\ res' = Append(res, o.body)
              /\ net' = net \o o.net
              /\ built' = built \o o.built
  /\ req' = [req EXCEPT !.world = world_after(req.world)]
  /\ pc' = IF pc = "pending" THEN "once" ELSE "twice"
  /\ UNCHANGED <<settings, session, calls, now, posted, lock, admitted, trades, tracked_traders>>

NextTwice == GetBalances

SpecTwice == InitTwice /\ [][NextTwice]_vars

\* C26: two snapshots in immediate succession, with the same credential and
\* wallet mode and against an unchanged exchange and chain, return the same
\* collateral, native-stablecoin and allowance figures (and name the same
\* wallet), and a snapshot changes nothing that the next one reads: the
\* outside, the session and the settings are as they were before it.
C26_SnapshotIdempotent ==
  /\ [](pc = "twice" =>
          /\ Len(res) = 2
          /\ res[1].cash = res[2].cash
          /\ res[1].usdc_native = res[2].usdc_native
          /\ res[1].allowance = res[2].allowance
          /\ res[1].funder = res[2].funder
          /\ res[1].signature_type = res[2].signature_type)
  /\ [][ /\ req'.world = req.world /\ req'.mode = req.mode
         /\ settings' = settings /\ session' = session ]_vars

\* both snapshots took the fallback list for a positive cash figure and read
\* the chain
C26_Witness ==
  /\ pc = "twice"
  /\ res[1].cash > 0 /\ res[2].cash = res[1].cash
  /\ res[1].usdc_native > 0 /\ res[1].allowance > 0
  /\ Cardinality({i \in DOMAIN net : net[i].call = "get_balance"}) = 2
  /\ Cardinality({i \in DOMAIN net : net[i].call = "allowance"}) = 2

-----------------------------------------------------------------------------
(* The kind of order place_order submits (specification SpecOrder) *)

\* a request of kind MARKET (or of no stated kind) with a valid amount: the
\* notional for BUY, the size for SELL
AsksMarket(op) ==
  LET amount == IF WantedSide = "BUY" THEN req.data.usdc_amount ELSE req.data.size
  IN  /\ pc = "done" /\ req.op = op
      /\ built # <<>>
      /\ WantedKind = <<"M","A","R","K","E","T">>
      /\ Converts(amount) /\ NumberOf(amount) > 0

SubmittedAsMarket ==
  LET amount == IF WantedSide = "BUY" THEN req.data.usdc_amount ELSE req.data.size
  IN  /\ \A i \in DOMAIN posted :
           /\ posted[i].order.kind = "market"
           /\ posted[i].order.amount = NumberOf(amount)
           /\ posted[i].type = "FOK"
      /\ posted # <<>> \/ res.body.error = "order could not be signed"

\* C27: place_order submits the kind of order the request asks for: a request
\* of kind MARKET (or with no order_type) that carries a valid notional (BUY)
\* or size (SELL) is submitted as a fill-or-kill market order whatever its
\* price field holds, the empty text included; it is not turned into a limit
\* order and not rejected for a missing limit size.
C27_MarketAsAsked == AsksMarket("place_order") => SubmittedAsMarket

\* the same, of the handler of patch_app_manual.py (specification SpecManual)
C27_ManualMarketAsAsked == AsksMarket("place_order_manual") => SubmittedAsMarket

-----------------------------------------------------------------------------
(* Order requests when the settings row names signature type 2 and no funder *)

InitUnfunded ==
  /\ settings = Unfunded
  /\ session = NoSettings
  /\ now = 5
  /\ calls \in GateStates
  /\ req \in [op : {"place_order"}, data : PlaceData] \cup [op : {"repeat_order"}, data : RepeatData]
  /\ pc = "pending"
  /\ res = NoReply
  /\ net = <<>>
  /\ built = <<>>
  /\ posted = <<>>
  /\ lock = 0
  /\ admitted = <<>>
  /\ trades = <<>>
  /\ tracked_traders = <<>>

SpecUnfunded == InitUnfunded /\ [][NextOrder]_vars

ProxyWithoutFunder(store) ==
  store.t = "row" /\ store.signature_type = 2 /\ store.funder = <<>>

\* C28: no order operation builds an exchange client, or posts an order, with
\* signature type PROXY(2) and no funder: when the settings in force name
\* type 2 and no funder, place_order and repeat_order fail before the
\* exchange client is created (no credential derivation, no client, no post).
C28_ProxyNeedsFunder ==
  /\ \A i \in DOMAIN built : ~(built[i].signature_type = 2 /\ built[i].funder = <<>>)
  /\ (pc = "done" /\ OrderOp /\ res # NoReply /\ ProxyWithoutFunder(settings)) =>
       /\ res.code = 400
       /\ ~DerivedCreds
       /\ built = <<>>
       /\ posted = <<>>

\* the refusal of the handler of patch_app_repeat_final.py (specification
\* SpecFinal) when a request reaches its wallet check
C28_FinalRefuses ==
  /\ C28_ProxyNeedsFunder
  /\ (pc = "done" /\ ProxyWithoutFunder(settings) /\ Len(net) = 1
      /\ res.body.error \notin {"token not found", "missing credentials"}) =>
       res.body.error = "Proxy Address required for Signature Type 2"

-----------------------------------------------------------------------------
(* What a set_creds request leaves behind *)

SetCredsStep == pc = "pending" /\ pc' = "done" /\ req.op = "set_creds"

\* session and store hold the same triple, the one the response reports
AgreeWithResponse(sess, store, r) ==
  /\ store.t = "row"
  /\ sess = store
  /\ store.private_key = CleanKey(Strip(OrEmpty(req.data.private_key)))
  /\ store.funder = r.body.funder
  /\ store.signature_type = r.body.signature_type

\* C29: set_creds is all-or-nothing: when it returns an error (missing or
\* invalid key, proxy address required, or a failure while saving) neither
\* the session nor the settings store has changed; when it returns success
\* the session and the store hold the same (key, funder, signature type)
\* triple, equal to the one in the response.
C29_AllOrNothing ==
  [][ SetCredsStep =>
        IF res'.code = 200
        THEN AgreeWithResponse(session', settings', res')
        ELSE session' = session /\ settings' = settings ]_vars

\* the same, leaving out the replies to a failed save
C29_RefusedOrSaved ==
  [][ (SetCredsStep /\ ~SaveFailed(res')) =>
        IF res'.code = 200
        THEN AgreeWithResponse(session', settings', res')
        ELSE res'.code \in {400, 500} /\ session' = session /\ settings' = settings ]_vars

-----------------------------------------------------------------------------
(* Trade mirroring: the trades and tracked_traders tables of db.py and the
   three pollers that fill them *)

WalletA == <<"0","x","a">>
WalletB == <<"0","x","b">>
Wallets == {WalletA, WalletB}

TradeType == Str(<<"T","R","A","D","E">>)
RedeemType == Str(<<"R","E","D","E","E","M">>)

\* one record of a feed; a key the feed leaves out reads as None
Record(type, hash, wallet) ==
  [t |-> "obj", type |-> type, transactionHash |-> hash,
   proxyWallet |-> Str(wallet), timestamp |-> Num(1)]

\* db.add_trade: INSERT OR IGNORE under transaction_hash TEXT UNIQUE; a NULL
\* hash conflicts with no row
add_trade(table, trade, at) ==
  LET row == [transaction_hash |-> trade.transactionHash,
              proxy_wallet |-> trade.proxyWallet,
              type |-> trade.type,
              timestamp |-> trade.timestamp,
              inserted_at |-> at]
  IN  IF row.transaction_hash # Null
         /\ \E i \in DOMAIN table : table[i].transaction_hash = row.transaction_hash
      THEN table
      ELSE Append(table, row)

\* db.add_trader: INSERT OR IGNORE of the lower-cased address
add_trader(table, address, at) ==
  IF \E i \in DOMAIN table : table[i].address = Lower(address)
  THEN table
  ELSE Append(table, [address |-> Lower(address), created_at |-> at, last_seen |-> Null])

\* fetcher.update_trader_profile with db.update_trader_info: of the sample's
\* fields the model keeps last_seen
update_trader_profile(table, address, sample, at) ==
  LET last_seen == IF Falsy(sample.timestamp) THEN Num(at) ELSE sample.timestamp
  IN  [i \in DOMAIN table |->
         IF table[i].address = Lower(address)
         THEN [table[i] EXCEPT !.last_seen = last_seen]
         ELSE table[i]]

\* db.list_traders: ORDER BY created_at DESC, equal times in row order
RECURSIVE list_traders(_)
list_traders(table) ==
  IF table = <<>> THEN <<>>
  ELSE LET m == CHOOSE i \in DOMAIN table : \A j \in DOMAIN table :
                  \/ table[j].created_at < table[i].created_at
                  \/ (table[j].created_at = table[i].created_at /\ i <= j)
           rest == [k \in 1..(Len(table) - 1) |-> IF k < m THEN table[k] ELSE table[k + 1]]
       IN  <<table[m]>> \o list_traders(rest)

IsTrade(item) == item.type = TradeType

\* what one poller does with one trader, given the two feeds' answers: the
\* records it will add and the record it takes the profile from
Polled(items, sample, failed) == [items |-> items, sample |-> sample, failed |-> failed]

poll_trader(poller, address, answers) ==
  LET activity == fetch_for_user("activity", address, answers.activity, answers.activity).result
      fetched == fetch_for_user("trades", address, answers.trades, answers.trades).result
  IN  IF activity.k = "raise" THEN Polled(<<>>, Null, TRUE)
      ELSE IF Len(activity.v.v) > 0
      THEN Polled(SelectSeq(activity.v.v, IsTrade),
                  IF poller = "updater" THEN Null ELSE activity.v.v[1], FALSE)
      ELSE IF poller = "updater" THEN Polled(<<>>, Null, FALSE)
      ELSE IF fetched.k = "raise" THEN Polled(<<>>, Null, TRUE)
      ELSE IF Len(fetched.v.v) > 0 THEN Polled(fetched.v.v, fetched.v.v[1], FALSE)
      ELSE Polled(<<>>, Null, FALSE)

Pollers == {"updater", "add_trader", "run_once"}

OwnHash(w) == IF w = WalletA THEN Str(<<"t","a">>) ELSE Str(<<"t","b">>)
SharedHash == Str(<<"t","1">>)

ActivityOf(w) ==
  { <<>>,
    <<Record(TradeType, OwnHash(w), w), Record(RedeemType, Str(<<"r">>), w)>>,
    <<Record(TradeType, SharedHash, w)>>,
    <<Record(TradeType, Null, w)>> }

TradesOf(w) ==
  { <<>>, <<Record(Null, OwnHash(w), w), Record(Null, SharedHash, w)>> }

TrackedBefore ==
  { <<[address |-> WalletA, created_at |-> 0, last_seen |-> Null]>>,
    <<[address |-> WalletB, created_at |-> 0, last_seen |-> Null],
      [address |-> WalletA, created_at |-> 1, last_seen |-> Null]>> }

Answers(world, address) ==
  [activity |-> Http(200, List(world.activity[address])),
   trades |-> Http(200, List(world.trades[address]))]

InitMirror ==
  /\ settings = NoSettings
  /\ session = NoSettings
  /\ calls = <<>>
  /\ now = 1
  /\ tracked_traders \in TrackedBefore
  /\ trades = <<>>
  /\ \E a \in Wallets,
        fa \in ActivityOf(WalletA), fb \in ActivityOf(WalletB),
        ta \in TradesOf(WalletA), tb \in TradesOf(WalletB) :
       req = [address |-> a,
              before |-> tracked_traders,
              activity |-> [w \in Wallets |-> IF w = WalletA THEN fa ELSE fb],
              trades |-> [w \in Wallets |-> IF w = WalletA THEN ta ELSE tb]]
  /\ pc = [r \in Pollers |-> "idle"]
  /\ res = [r \in Pollers |-> [todo |-> <<>>, items |-> <<>>]]
  /\ net = <<>>
  /\ built = <<>>
  /\ posted = <<>>
  /\ lock = 0
  /\ admitted = <<>>

Addresses(rows) == [i \in DOMAIN rows |-> rows[i].address]

After(todo, items) ==
  IF items # <<>> THEN "adding" ELSE IF todo # <<>> THEN "polling" ELSE "done"

\* a pass of a poller begins: the updater and run_once read the tracked
\* traders, add_trader records the address it was given
StartRun(r) ==
  /\ pc[r] = "idle"
  /\ LET table == IF r = "add_trader" THEN add_trader(tracked_traders, req.address, now)
                  ELSE tracked_traders
         todo == IF r = "add_trader" THEN <<req.address>>
                 ELSE Addresses(list_traders(tracked_traders))
     IN  /\ tracked_traders' = table
         /\ res' = [res EXCEPT ![r] = [todo |-> todo, items |-> <<>>]]
         /\ pc' = [pc EXCEPT ![r] = After(todo, <<>>)]
  /\ UNCHANGED <<settings, session, calls, now, req, net, built, posted, lock, admitted, trades>>

\* the poller fetches the feeds of its next trader and updates the profile
Poll(r) ==
  /\ pc[r] = "polling"
  /\ LET address == Head(res[r].todo)
         p == poll_trader(r, address, Answers(req, address))
         todo == IF p.failed /\ r # "updater" THEN <<>> ELSE Tail(res[r].todo)
     IN  /\ tracked_traders' = IF p.sample = Null THEN tracked_traders
                               ELSE update_trader_profile(tracked_traders, address, p.sample, now)
         /\ res' = [res EXCEPT ![r] = [todo |-> todo, items |-> p.items]]
         /\ pc' = [pc EXCEPT ![r] = After(todo, p.items)]
  /\ UNCHANGED <<settings, session, calls, now, req, net, built, posted, lock, admitted, trades>>

\* one db.add_trade of the loop over the fetched records
AddTrade(r) ==
  /\ pc[r] = "adding"
  /\ trades' = add_trade(trades, Head(res[r].items), now)
  /\ res' = [res EXCEPT ![r].items = Tail(res[r].items)]
  /\ pc' = [pc EXCEPT ![r] = After(res[r].todo, Tail(res[r].items))]
  /\ UNCHANGED <<settings, session, calls, now, req, net, built, posted, lock, admitted, tracked_traders>>

\* datetime.utcnow() moves on
Later ==
  /\ now < 1 + Ticks
  /\ now' = now + 1
  /\ UNCHANGED <<settings, session, calls, req, pc, res, net, built, posted, lock, admitted, trades, tracked_traders>>

NextMirror ==
  \/ \E r \in Pollers : StartRun(r)
  \/ \E r \in Pollers : Poll(r)
  \/ \E r \in Pollers : AddTrade(r)
  \/ Later

SpecMirror == InitMirror /\ [][NextMirror]_vars

-----------------------------------------------------------------------------
(* Reading the trade log *)

AllDone == \A r \in Pollers : pc[r] = "done"

\* the upstream trade a row mirrors
TradeOf(row) == <<row.transaction_hash, row.proxy_wallet, row.timestamp>>

\* the mirrored columns of the log, without row ids and insertion times
Columns(table) ==
  { [transaction_hash |-> table[i].transaction_hash,
     proxy_wallet |-> table[i].proxy_wallet,
     type |-> table[i].type,
     timestamp |-> table[i].timestamp] : i \in DOMAIN table }

RECURSIVE AddAll(_, _)
AddAll(table, items) ==
  IF items = <<>> THEN table
  ELSE AddAll(add_trade(table, Head(items), 1), Tail(items))

RECURSIVE PassItems(_, _)
PassItems(poller, todo) ==
  IF todo = <<>> THEN <<>>
  ELSE poll_trader(poller, Head(todo), Answers(req, Head(todo))).items
         \o PassItems(poller, Tail(todo))

\* the log after the three passes run one after the other: the updater, then
\* add_trader, then run_once
InOrder ==
  AddAll(<<>>,
         PassItems("updater", Addresses(list_traders(req.before)))
           \o PassItems("add_trader", <<req.address>>)
           \o PassItems("run_once",
                        Addresses(list_traders(add_trader(req.before, req.address, 1)))))

NoTradeTwice ==
  \A i \in DOMAIN trades, j \in DOMAIN trades :
    i # j => TradeOf(trades[i]) # TradeOf(trades[j])

\* C30: trade mirroring is idempotent under any ordering: after any
\* interleaving of the background updater, the add-trader initial fetch and
\* run_once over the same upstream records the trade log holds at most one
\* row per mirrored trade (polling again adds no rows), and once the runs
\* are over its content is the one of the runs executed one after the other.
C30_MirrorIdempotent ==
  /\ NoTradeTwice
  /\ AllDone => Columns(trades) = Columns(InOrder)

FeedRecords(w) ==
  { req.activity[w][i] : i \in DOMAIN req.activity[w] }
    \cup { req.trades[w][i] : i \in DOMAIN req.trades[w] }

EveryRecordHashed ==
  \A w \in Wallets : \A x \in FeedRecords(w) : x.transactionHash # Null

NoHashInTwoFeeds ==
  \A x \in FeedRecords(WalletA), y \in FeedRecords(WalletB) :
    x.transactionHash = Null \/ x.transactionHash # y.transactionHash

\* the same for upstream records that all carry a transaction hash, none of
\* which appears in the feeds of two traders
C30_KeyedByHash ==
  (EveryRecordHashed /\ NoHashInTwoFeeds) => C30_MirrorIdempotent

====
